---- MODULE Spec2Model ----
(***************************************************************************)
(* Workspace / page progress data-access layer of the euclid front-end.    *)
(*                                                                         *)
(* The store (tables workspaces, pages, user_info and the uploads bucket)  *)
(* is shared by asynchronous calls.  Every `await` on the store is one     *)
(* atomic step; what a call holds in local variables between two awaits    *)
(* is kept in loc / rd.  A store call either takes effect and returns its  *)
(* row, or fails with an error and changes nothing.                        *)
(*                                                                         *)
(* Identifiers are client-generated random tokens; they are modelled as    *)
(* the next unused identifier, so created_at order is identifier order.    *)
(* user_info.user_id is taken to be unique (an insert for a user that      *)
(* already has a row fails).                                               *)
(***************************************************************************)
EXTENDS Integers, Sequences, FiniteSets, TLC

\* ---------------------------------------------------------------- bounds
NumCallers == 2
MaxWorkspaces == 2
MaxPages == 2
MaxListLen == 2
MaxWorkspaceLinks == 3
MaxUploads == 2
MaxQuestions == 2
MaxMounts == 2
MaxLoads == 2
MaxVapiEvents == 6

Callers == 1..NumCallers
WsIds == 1..MaxWorkspaces
PageIds == 1..MaxPages
Users == {"u1"}

NoId == 0
NoError == "null"
StoreError == "store_error"
NotFound == "no_rows"
AuthError == "User must be authenticated to add workspace"
UploadFailed == "Upload failed"
NoSession == "No user session found"
GenerationFailed == "generation_failed"
LoadFailed == "Failed to load workspace data"
LoadWorkspacesFailed == "Failed to load workspaces"
WorkspaceNotFound == "Workspace not found"

VARIABLES
  workspaces,   \* table workspaces: workspace_id -> row
  pages,        \* table pages: page_id -> row
  user_info,    \* table user_info: user_id -> row
  uploads,      \* number of objects in the uploads bucket
  session,      \* supabase.auth session present
  pc,           \* position of each caller inside its current call
  arg,          \* arguments of each caller's current call
  loc,          \* local variables of each caller's current call
  ret,          \* result { data, error } of each caller's finished call
  rd,           \* the aggregation call in flight (read-only caller)
  linkLog,      \* history: page ids of the addPageToWorkspace calls on a workspace that
                \*          returned without error, in the order the calls returned
  overlap,      \* history: two addPageToWorkspace calls on the workspace were in flight together
  linked,       \* history: workspace ids whose addWorkspaceToUser(user, id) returned no error
  view,         \* state of the ProblemSpace page and of its handlers in flight
  home,         \* state of the Home page
  late,         \* the response of an earlier load request that has not arrived yet
  vapi          \* services/vapi.ts: pendingContext, the calls of the voice client and
                \*          history: what was called, emitted and sent, in order

vars == <<workspaces, pages, user_info, uploads, session, pc, arg, loc, ret, rd,
          linkLog, overlap, linked, view, home, late, vapi>>

storeVars == <<workspaces, pages, user_info, uploads>>
histVars == <<linkLog, overlap, linked>>

\* ---------------------------------------------------------------- helpers
Range(s) == {s[i] : i \in 1..Len(s)}

IsPrefix(s, t) == Len(s) <= Len(t) /\ \A i \in 1..Len(s) : s[i] = t[i]

Min(S) == CHOOSE x \in S : \A y \in S : x <= y
Max(S) == CHOOSE x \in S : \A y \in S : x >= y

RECURSIVE OrderAsc(_)
OrderAsc(S) == IF S = {} THEN <<>> ELSE <<Min(S)>> \o OrderAsc(S \ {Min(S)})

RECURSIVE OrderDesc(_)
OrderDesc(S) == IF S = {} THEN <<>> ELSE <<Max(S)>> \o OrderDesc(S \ {Max(S)})

NoArg == [user |-> "none", ws |-> NoId, page |-> NoId]
NoLoc == [list |-> <<>>, exists |-> FALSE, ws |-> NoId, viaUpload |-> FALSE,
          flow |-> "none", questions |-> 0, i |-> 0, pageIds |-> <<>>, pageErrors |-> 0]
NoRet == [data |-> NoId, error |-> NoError]
IdleRd == [pc |-> "idle", op |-> "none", ws |-> NoId, user |-> "none",
           ids |-> <<>>, entries |-> <<>>, hasData |-> FALSE, error |-> NoError]

NoWorkspace == [exists |-> FALSE, page_id_list |-> <<>>, questions_set |-> FALSE, num_completed |-> 0]
NoPage == [exists |-> FALSE, is_complete |-> FALSE, snapshot |-> "empty"]
NoUserInfo == [exists |-> FALSE, workspace_id_list |-> <<>>]

\* the ProblemSpace page before it is shown: no route parameter, nothing
\* loaded, no handler in flight
NoData == [loaded |-> FALSE, pages |-> <<>>, completedCount |-> 0, totalCount |-> 0,
           status |-> "in progress"]
NoQuestion == [page_id |-> NoId, is_complete |-> FALSE]
NoSubmit == [pc |-> "idle", currentQuestion |-> NoQuestion, currentQuestionIndex |-> 0,
             workspaceData |-> NoData]
NoView == [sessionId |-> NoId, workspaceData |-> NoData, currentQuestionIndex |-> 0,
           isLoading |-> FALSE, error |-> NoError, submit |-> NoSubmit, saving |-> {}]

\* the Home page before it is shown, and its state when it is mounted:
\* useState([]) for workspaces, useState(true) for isLoading, useState(null) for error.
\* instance counts the times the page was mounted, requests the loads the
\* instance has started; applied lists, in the order of arrival, the requests
\* whose continuation has run and the number of workspaces each has set
NoHome == [instance |-> 0, mounted |-> FALSE, workspaces |-> <<>>, isLoading |-> FALSE,
           error |-> NoError, requests |-> 0, applied |-> <<>>]

\* no earlier response is under way
\* (r is the response, instance and request say which load it answers)
NoLate == [r |-> IdleRd, instance |-> 0, request |-> 0]

\* let pendingContext: PendingContext | null = null
Null == [text |-> "null", canvasDescription |-> "null"]

\* canvasDescription?: string left out by the caller
Undefined == "undefined"

\* services/vapi.ts after the module is loaded: no pending context, no call started
\* (calls: calls vapi.start has begun whose call-start event has not been emitted)
NoVapi == [pendingContext |-> Null, calls |-> 0, log |-> <<>>]

\* generateUUID: a token no existing row uses
generateUUID(table, ids) == Min({i \in ids : ~table[i].exists})
HasFreeId(table, ids) == \E i \in ids : ~table[i].exists

Init ==
  /\ workspaces = [w \in WsIds |-> NoWorkspace]
  /\ pages = [p \in PageIds |-> NoPage]
  /\ user_info = [u \in Users |-> NoUserInfo]
  /\ uploads = 0
  /\ session = FALSE
  /\ pc = [c \in Callers |-> "idle"]
  /\ arg = [c \in Callers |-> NoArg]
  /\ loc = [c \in Callers |-> NoLoc]
  /\ ret = [c \in Callers |-> NoRet]
  /\ rd = IdleRd
  /\ linkLog = [w \in WsIds |-> <<>>]
  /\ overlap = [w \in WsIds |-> FALSE]
  /\ linked = [u \in Users |-> {}]
  /\ view = NoView
  /\ home = NoHome
  /\ late = NoLate
  /\ vapi = NoVapi

\* variant: a failed call hands out what it had produced before the failure
Finish_partial(c, data, error) ==
  /\ pc' = [pc EXCEPT ![c] = "done"]
  /\ ret' = [ret EXCEPT ![c] = [data |-> IF error = NoError THEN data ELSE loc[c].ws,
                                error |-> error]]

\* a finished call hands its result to the caller, which becomes free again
Finish(c, data, error) ==
  /\ pc' = [pc EXCEPT ![c] = "done"]
  /\ ret' = [ret EXCEPT ![c] = [data |-> data, error |-> error]]

acknowledge(c) ==
  /\ pc[c] = "done"
  /\ pc' = [pc EXCEPT ![c] = "idle"]
  /\ arg' = [arg EXCEPT ![c] = NoArg]
  /\ loc' = [loc EXCEPT ![c] = NoLoc]
  /\ ret' = [ret EXCEPT ![c] = NoRet]
  /\ UNCHANGED <<storeVars, session, rd, histVars, view, home, late, vapi>>

\* ---------------------------------------------------------------- session
signIn ==
  /\ ~session
  /\ session' = TRUE
  /\ UNCHANGED <<storeVars, pc, arg, loc, ret, rd, histVars, view, home, late, vapi>>

signOut ==
  /\ session
  /\ session' = FALSE
  /\ UNCHANGED <<storeVars, pc, arg, loc, ret, rd, histVars, view, home, late, vapi>>

\* ---------------------------------------------------------------- workspaces
newPage == [exists |-> TRUE, is_complete |-> FALSE, snapshot |-> "empty"]
newWorkspace == [exists |-> TRUE, page_id_list |-> <<>>, questions_set |-> FALSE, num_completed |-> 0]

\* The calls that are a single store request (createWorkspace, createPage,
\* markPageComplete, the question_list update) are one step; their result is
\* not kept, a failed request leaves every variable as it was.

\* createWorkspace(title, uploadUrl): insert { workspace_id, title, upload_url,
\* page_id_list: [], question_list: [], num_completed: 0 }
createWorkspace(c) ==
  /\ pc[c] = "idle"
  /\ HasFreeId(workspaces, WsIds)
  /\ \E ok \in BOOLEAN :
       IF ok
       THEN workspaces' = [workspaces EXCEPT ![generateUUID(workspaces, WsIds)] = newWorkspace]
       ELSE workspaces' = workspaces
  /\ UNCHANGED <<pages, user_info, uploads, session, pc, arg, loc, ret, rd, histVars, view, home, late, vapi>>

\* updateWorkspace(workspaceId, { num_completed }):
\* update(updates).eq('workspace_id', workspaceId).select().single()
updateWorkspace(c) ==
  /\ pc[c] = "idle"
  /\ \E workspaceId \in WsIds, num_completed \in 0..MaxPages, ok \in BOOLEAN :
       IF ok /\ workspaces[workspaceId].exists
       THEN workspaces' = [workspaces EXCEPT ![workspaceId].num_completed = num_completed]
       ELSE workspaces' = workspaces
  /\ UNCHANGED <<pages, user_info, uploads, session, pc, arg, loc, ret, rd, histVars, view, home, late, vapi>>

\* ---------------------------------------------------------------- pages
\* createPage: insert { page_id, snapshot, question, is_complete: false }
createPage(c) ==
  /\ pc[c] = "idle"
  /\ HasFreeId(pages, PageIds)
  /\ \E ok \in BOOLEAN :
       IF ok
       THEN pages' = [pages EXCEPT ![generateUUID(pages, PageIds)] = newPage]
       ELSE pages' = pages
  /\ UNCHANGED <<workspaces, user_info, uploads, session, pc, arg, loc, ret, rd, histVars, view, home, late, vapi>>

\* variant: the update replaces the row, columns that are not given fall back
\* to their values at creation
updatePage_replace(pageId, updates) ==
  [pages EXCEPT ![pageId] =
     [f \in DOMAIN newPage |-> IF f \in DOMAIN updates THEN updates[f] ELSE newPage[f]]]

\* updatePage(pageId, updates): from('pages').update(updates).eq('page_id', pageId);
\* only the columns named in updates are written
updatePage(pageId, updates) ==
  [pages EXCEPT ![pageId] =
     [f \in DOMAIN newPage |-> IF f \in DOMAIN updates THEN updates[f] ELSE pages[pageId][f]]]

\* updatePage(pageId, { is_complete: true }) / markPageComplete(pageId):
\* update(...).eq('page_id', pageId); no row is changed when none matches
markPageComplete(c) ==
  /\ pc[c] = "idle"
  /\ \E pageId \in PageIds, ok \in BOOLEAN :
       IF ok /\ pages[pageId].exists
       THEN pages' = [pages EXCEPT ![pageId].is_complete = TRUE]
       ELSE pages' = pages
  /\ UNCHANGED <<workspaces, user_info, uploads, session, pc, arg, loc, ret, rd, histVars, view, home, late, vapi>>

\* ---------------------------------------------------------------- addPageToWorkspace
InFlightOn(w) == {c \in Callers : pc[c] \in {"ap_read", "ap_write"} /\ arg[c].ws = w}

addPageToWorkspace_call(c) ==
  /\ pc[c] = "idle"
  /\ \E workspaceId \in WsIds, pageId \in PageIds :
       /\ Len(linkLog[workspaceId]) + Cardinality(InFlightOn(workspaceId)) < MaxListLen
       /\ pc' = [pc EXCEPT ![c] = "ap_read"]
       /\ arg' = [arg EXCEPT ![c] = [NoArg EXCEPT !.ws = workspaceId, !.page = pageId]]
       /\ overlap' = [overlap EXCEPT ![workspaceId] = @ \/ InFlightOn(workspaceId) # {}]
  /\ UNCHANGED <<storeVars, session, loc, ret, rd, linkLog, linked, view, home, late, vapi>>

\* variant: a lookup that gives no workspace goes on with an empty list
addPageToWorkspace_getWorkspace_lenient(c) ==
  /\ pc[c] = "ap_read"
  /\ LET w == arg[c].ws IN
     \E ok \in BOOLEAN :
       /\ pc' = [pc EXCEPT ![c] = "ap_write"]
       /\ loc' = [loc EXCEPT ![c].list = IF ok /\ workspaces[w].exists
                                        THEN workspaces[w].page_id_list ELSE <<>>]
       /\ UNCHANGED ret
  /\ UNCHANGED <<storeVars, session, arg, rd, histVars, view, home, late, vapi>>

\* const { data: workspace, error: workspaceError } = await getWorkspace(workspaceId)
\* if (workspaceError) throw workspaceError   (.single() fails when no row matches)
addPageToWorkspace_getWorkspace(c) ==
  /\ pc[c] = "ap_read"
  /\ LET w == arg[c].ws IN
     \E ok \in BOOLEAN :
       IF ok /\ workspaces[w].exists
       THEN /\ pc' = [pc EXCEPT ![c] = "ap_write"]
            /\ loc' = [loc EXCEPT ![c].list = workspaces[w].page_id_list]
            /\ UNCHANGED ret
       ELSE /\ Finish(c, NoId, IF ok THEN NotFound ELSE StoreError)
            /\ UNCHANGED loc
  /\ UNCHANGED <<storeVars, session, arg, rd, histVars, view, home, late, vapi>>

\* variant: an id the list already holds is not added again
updatedPageList_dedup(currentPageList, pageId) ==
  IF pageId \in Range(currentPageList) THEN currentPageList ELSE Append(currentPageList, pageId)

\* variants of the append: the read list is dropped / the id is put in front
updatedPageList_dropRead(currentPageList, pageId) == <<pageId>>
updatedPageList_prepend(currentPageList, pageId) == <<pageId>> \o currentPageList

updatedPageList(currentPageList, pageId) == Append(currentPageList, pageId)

\* update({ page_id_list: updatedPageList }).eq('workspace_id', workspaceId)
addPageToWorkspace_update(c) ==
  /\ pc[c] = "ap_write"
  /\ LET w == arg[c].ws IN
     \E ok \in BOOLEAN :
       IF ok
       THEN /\ workspaces' = [workspaces EXCEPT
                 ![w].page_id_list = updatedPageList(loc[c].list, arg[c].page)]
            /\ linkLog' = [linkLog EXCEPT ![w] = Append(@, arg[c].page)]
            /\ Finish(c, w, NoError)
       ELSE /\ UNCHANGED <<workspaces, linkLog>>
            /\ Finish(c, NoId, StoreError)
  /\ UNCHANGED <<pages, user_info, uploads, session, arg, loc, rd, overlap, linked, view, home, late, vapi>>

\* step 6 of handleGenerateReview:
\* update({ question_list: questions, num_completed: 0 }).eq('workspace_id', ...)
handleGenerateReview_updateQuestions(c) ==
  /\ pc[c] = "idle"
  /\ \E workspaceId \in WsIds, ok \in BOOLEAN :
       IF ok /\ workspaces[workspaceId].exists
       THEN workspaces' = [workspaces EXCEPT ![workspaceId].questions_set = TRUE,
                                             ![workspaceId].num_completed = 0]
       ELSE workspaces' = workspaces
  /\ UNCHANGED <<pages, user_info, uploads, session, pc, arg, loc, ret, rd, histVars, view, home, late, vapi>>

\* ---------------------------------------------------------------- addWorkspaceToUser
\* the workspace id the link is made for: the argument, or the workspace
\* createWorkspaceWithUpload has just created
LinkedWorkspace(c) == IF loc[c].viaUpload THEN loc[c].ws ELSE arg[c].ws

\* calls in flight that will link a workspace to the user / upload a file / insert a workspace
LinkingFor(u) ==
  {c \in Callers : pc[c] \in {"cwu_upload", "cwu_create", "awu_session", "awu_check", "awu_write"}
                    /\ arg[c].user = u}
Uploading == {c \in Callers : pc[c] = "cwu_upload"}
Creating == {c \in Callers : pc[c] \in {"cwu_upload", "cwu_create"}}
Existing(table, ids) == {i \in ids : table[i].exists}

\* the model stops starting calls when the lists, the bucket or the identifiers are used up
LinkBudget(u) ==
  Len(user_info[u].workspace_id_list) + Cardinality(LinkingFor(u)) < MaxWorkspaceLinks

addWorkspaceToUser_call(c) ==
  /\ pc[c] = "idle"
  /\ \E userId \in Users, workspaceId \in WsIds :
       /\ LinkBudget(userId)
       /\ pc' = [pc EXCEPT ![c] = "awu_session"]
       /\ arg' = [arg EXCEPT ![c] = [NoArg EXCEPT !.user = userId, !.ws = workspaceId]]
  /\ UNCHANGED <<storeVars, session, loc, ret, rd, histVars, view, home, late, vapi>>

\* variant: the session check is skipped
addWorkspaceToUser_getSession_unchecked(c) ==
  /\ pc[c] = "awu_session"
  /\ pc' = [pc EXCEPT ![c] = "awu_check"]
  /\ UNCHANGED <<storeVars, session, arg, loc, ret, rd, histVars, view, home, late, vapi>>

\* const { data: { session } } = await supabase.auth.getSession(); if (!session) throw
addWorkspaceToUser_getSession(c) ==
  /\ pc[c] = "awu_session"
  /\ IF session
     THEN /\ pc' = [pc EXCEPT ![c] = "awu_check"]
          /\ UNCHANGED ret
     ELSE Finish(c, NoId, AuthError)
  /\ UNCHANGED <<storeVars, session, arg, loc, rd, histVars, view, home, late, vapi>>

\* checkUserInfoExists: .single() reports an error when the user has no row;
\* every error is answered with { exists: false, data: null }
checkUserInfoExists(c) ==
  /\ pc[c] = "awu_check"
  /\ \E ok \in BOOLEAN :
       LET row == user_info[arg[c].user]
           exists == ok /\ row.exists
       IN loc' = [loc EXCEPT ![c].exists = exists,
                             ![c].list = IF exists THEN row.workspace_id_list ELSE <<>>]
  /\ pc' = [pc EXCEPT ![c] = "awu_write"]
  /\ UNCHANGED <<storeVars, session, arg, ret, rd, histVars, view, home, late, vapi>>

\* variant: the new id is put in front of the list that was read
updatedWorkspaceList_prepend(currentWorkspaceList, workspaceId) == <<workspaceId>> \o currentWorkspaceList

\* const updatedWorkspaceList = [...currentWorkspaceList, workspaceId]
updatedWorkspaceList(currentWorkspaceList, workspaceId) == Append(currentWorkspaceList, workspaceId)

\* variant: the write takes effect although the call reports an error
addWorkspaceToUser_write_lateError(c) ==
  /\ pc[c] = "awu_write"
  /\ LET u == arg[c].user
         w == LinkedWorkspace(c)
     IN \E ok \in BOOLEAN :
       /\ user_info' = IF ~loc[c].exists
                       THEN IF ~user_info[u].exists
                            THEN [user_info EXCEPT ![u] =
                                    [exists |-> TRUE, workspace_id_list |-> <<w>>]]
                            ELSE user_info
                       ELSE [user_info EXCEPT
                               ![u].workspace_id_list = updatedWorkspaceList(loc[c].list, w)]
       /\ IF ok /\ user_info' # user_info
          THEN /\ linked' = [linked EXCEPT ![u] = @ \cup {w}]
               /\ Finish(c, w, NoError)
          ELSE /\ UNCHANGED linked
               /\ Finish(c, NoId, StoreError)
  /\ UNCHANGED <<workspaces, pages, uploads, session, arg, loc, rd, linkLog, overlap, view, home, late, vapi>>

\* insert { user_id, workspace_id_list: [workspaceId] }   (no row was seen), or
\* update({ workspace_id_list: updatedWorkspaceList }).eq('user_id', userId)
addWorkspaceToUser_write(c) ==
  /\ pc[c] = "awu_write"
  /\ LET u == arg[c].user
         w == LinkedWorkspace(c)
     IN \E ok \in BOOLEAN :
       IF ~loc[c].exists
       THEN IF ok /\ ~user_info[u].exists
            THEN /\ user_info' = [user_info EXCEPT ![u] =
                      [exists |-> TRUE, workspace_id_list |-> <<w>>]]
                 /\ linked' = [linked EXCEPT ![u] = @ \cup {w}]
                 /\ Finish(c, w, NoError)
            ELSE /\ UNCHANGED <<user_info, linked>>
                 /\ Finish(c, NoId, StoreError)
       ELSE IF ok
            THEN /\ user_info' = [user_info EXCEPT
                      ![u].workspace_id_list = updatedWorkspaceList(loc[c].list, w)]
                 /\ linked' = [linked EXCEPT ![u] = @ \cup {w}]
                 /\ Finish(c, w, NoError)
            ELSE /\ UNCHANGED <<user_info, linked>>
                 /\ Finish(c, NoId, StoreError)
  /\ UNCHANGED <<workspaces, pages, uploads, session, arg, loc, rd, linkLog, overlap, view, home, late, vapi>>

\* ---------------------------------------------------------------- createWorkspaceWithUpload
createWorkspaceWithUpload_call(c) ==
  /\ pc[c] = "idle"
  /\ Cardinality(Existing(workspaces, WsIds)) + Cardinality(Creating) < MaxWorkspaces
  /\ uploads + Cardinality(Uploading) < MaxUploads
  /\ \E userId \in Users :
       /\ LinkBudget(userId)
       /\ pc' = [pc EXCEPT ![c] = "cwu_upload"]
       /\ arg' = [arg EXCEPT ![c] = [NoArg EXCEPT !.user = userId]]
       /\ loc' = [loc EXCEPT ![c].viaUpload = TRUE]
  /\ UNCHANGED <<storeVars, session, ret, rd, histVars, view, home, late, vapi>>

\* variant: the call goes on to create the workspace after a failed upload
uploadFile_ignoreError(c) ==
  /\ pc[c] = "cwu_upload"
  /\ \E ok \in BOOLEAN : uploads' = (IF ok THEN uploads + 1 ELSE uploads)
  /\ pc' = [pc EXCEPT ![c] = "cwu_create"]
  /\ UNCHANGED <<workspaces, pages, user_info, session, arg, loc, ret, rd, histVars, view, home, late, vapi>>

\* 1. const { data: uploadData, error: uploadError } = await uploadFile(file)
\*    if (uploadError || !uploadData) throw
uploadFile(c) ==
  /\ pc[c] = "cwu_upload"
  /\ \E ok \in BOOLEAN :
       IF ok
       THEN /\ uploads' = uploads + 1
            /\ pc' = [pc EXCEPT ![c] = "cwu_create"]
            /\ UNCHANGED ret
       ELSE /\ uploads' = uploads
            /\ Finish(c, NoId, UploadFailed)
  /\ UNCHANGED <<workspaces, pages, user_info, session, arg, loc, rd, histVars, view, home, late, vapi>>

\* variant: a failed creation removes the uploaded object again
createWorkspaceWithUpload_createWorkspace_compensated(c) ==
  /\ pc[c] = "cwu_create"
  /\ \E ok \in BOOLEAN :
       IF ok
       THEN LET workspaceId == generateUUID(workspaces, WsIds) IN
            /\ workspaces' = [workspaces EXCEPT ![workspaceId] = newWorkspace]
            /\ loc' = [loc EXCEPT ![c].ws = workspaceId]
            /\ pc' = [pc EXCEPT ![c] = "awu_session"]
            /\ UNCHANGED <<ret, uploads>>
       ELSE /\ uploads' = uploads - 1
            /\ UNCHANGED <<workspaces, loc>>
            /\ Finish(c, NoId, StoreError)
  /\ UNCHANGED <<pages, user_info, session, arg, rd, histVars, view, home, late, vapi>>

\* 2. createWorkspace(title, uploadData.url): insert { workspace_id, title,
\*    upload_url, page_id_list: [], question_list: [], num_completed: 0 }
createWorkspaceWithUpload_createWorkspace(c) ==
  /\ pc[c] = "cwu_create"
  /\ \E ok \in BOOLEAN :
       IF ok
       THEN LET workspaceId == generateUUID(workspaces, WsIds) IN
            /\ workspaces' = [workspaces EXCEPT ![workspaceId] = newWorkspace]
            /\ loc' = [loc EXCEPT ![c].ws = workspaceId]
            /\ pc' = [pc EXCEPT ![c] = "awu_session"]
            /\ UNCHANGED ret
       ELSE /\ UNCHANGED <<workspaces, loc>>
            /\ Finish(c, NoId, StoreError)
  /\ UNCHANGED <<pages, user_info, uploads, session, arg, rd, histVars, view, home, late, vapi>>

\* ---------------------------------------------------------------- handleGenerateReview
\* The generate-review workflow of the upload dialog.  loc[c].flow is the part
\* of the workflow the caller is in ("start": session and generation,
\* "workspace": createWorkspaceWithUpload, "pages": the page loop and the
\* question_list update, "end": finished); questions is questions.length, i the
\* number of questions the loop has taken up, pageIds the local array of the
\* created pages and pageErrors the number of errors the loop has logged.
Starting == {c \in Callers : pc[c] \in {"gr_session", "gr_generate"}}

\* pages the workflow of caller c is still going to create
Remaining(c) ==
  IF loc[c].flow \in {"workspace", "pages"} THEN loc[c].questions - loc[c].i ELSE 0

RECURSIVE SumRemaining(_)
SumRemaining(S) ==
  IF S = {} THEN 0 ELSE LET c == Min(S) IN Remaining(c) + SumRemaining(S \ {c})

\* if (!imageFile) return; setIsLoading(true)
handleGenerateReview_call(c) ==
  /\ pc[c] = "idle"
  /\ Cardinality(Existing(workspaces, WsIds)) + Cardinality(Creating) + Cardinality(Starting)
       < MaxWorkspaces
  /\ uploads + Cardinality(Uploading) + Cardinality(Starting) < MaxUploads
  /\ \A u \in Users :
       Len(user_info[u].workspace_id_list) + Cardinality(LinkingFor(u)) + Cardinality(Starting)
         < MaxWorkspaceLinks
  /\ pc' = [pc EXCEPT ![c] = "gr_session"]
  /\ loc' = [loc EXCEPT ![c].flow = "start"]
  /\ UNCHANGED <<storeVars, session, arg, ret, rd, histVars, view, home, late, vapi>>

\* const [isLoading, setIsLoading] = useState(false) of the dialog of caller c:
\* true from setIsLoading(true) until the finally block
isLoading(c) == loc[c].flow # "none"

\* the catch / finally of the workflow: the error is shown, nothing is undone
handleGenerateReview_catch(c, error) ==
  /\ Finish(c, NoId, error)
  /\ loc' = [loc EXCEPT ![c].flow = "end"]

\* const { data: { session } } = await supabase.auth.getSession()
\* if (!session?.user) throw new Error('No user session found')
handleGenerateReview_getSession(c) ==
  /\ pc[c] = "gr_session"
  /\ IF session
     THEN \E userId \in Users :
            /\ pc' = [pc EXCEPT ![c] = "gr_generate"]
            /\ arg' = [arg EXCEPT ![c].user = userId]
            /\ UNCHANGED <<loc, ret>>
     ELSE /\ handleGenerateReview_catch(c, NoSession)
          /\ UNCHANGED arg
  /\ UNCHANGED <<storeVars, session, rd, histVars, view, home, late, vapi>>

\* variant: the file is uploaded before the questions are generated
handleGenerateReview_generate_uploadFirst(c) ==
  /\ pc[c] = "gr_generate"
  /\ uploads' = uploads + 1
  /\ \E ok \in BOOLEAN :
       IF ok
       THEN \E n \in 0..MaxQuestions :
              /\ Cardinality(Existing(pages, PageIds)) + SumRemaining(Callers \ {c}) + n <= MaxPages
              /\ pc' = [pc EXCEPT ![c] = "cwu_create"]
              /\ loc' = [loc EXCEPT ![c].flow = "workspace", ![c].questions = n,
                                    ![c].viaUpload = TRUE]
              /\ UNCHANGED ret
       ELSE handleGenerateReview_catch(c, GenerationFailed)
  /\ UNCHANGED <<workspaces, pages, user_info, session, arg, rd, histVars, view, home, late, vapi>>

\* toBase64, realClaudeAPI and the parsing of its answer into questions; then
\* createWorkspaceWithUpload(title, imageFile, userId) is called
handleGenerateReview_generate(c) ==
  /\ pc[c] = "gr_generate"
  /\ \E ok \in BOOLEAN :
       IF ok
       THEN \E n \in 0..MaxQuestions :
              /\ Cardinality(Existing(pages, PageIds)) + SumRemaining(Callers \ {c}) + n <= MaxPages
              /\ pc' = [pc EXCEPT ![c] = "cwu_upload"]
              /\ loc' = [loc EXCEPT ![c].flow = "workspace", ![c].questions = n,
                                    ![c].viaUpload = TRUE]
              /\ UNCHANGED ret
       ELSE handleGenerateReview_catch(c, GenerationFailed)
  /\ UNCHANGED <<storeVars, session, arg, rd, histVars, view, home, late, vapi>>

\* where the page loop goes after question number i
AfterQuestion(c, i) == IF i < loc[c].questions THEN "gr_page" ELSE "gr_update"

\* if (workspaceError || !workspaceData) throw; const { workspace } = workspaceData
handleGenerateReview_workspaceCreated(c) ==
  /\ pc[c] = "done" /\ loc[c].flow = "workspace"
  /\ IF ret[c].error # NoError \/ ret[c].data = NoId
     THEN /\ handleGenerateReview_catch(c, ret[c].error)
          /\ UNCHANGED arg
     ELSE /\ pc' = [pc EXCEPT ![c] = AfterQuestion(c, 0)]
          /\ arg' = [arg EXCEPT ![c].ws = ret[c].data]
          /\ loc' = [loc EXCEPT ![c].flow = "pages"]
          /\ ret' = [ret EXCEPT ![c] = NoRet]
  /\ UNCHANGED <<storeVars, session, rd, histVars, view, home, late, vapi>>

\* variant: the page that was created first is handed out again
handleGenerateReview_createPage_reused(c) ==
  /\ pc[c] = "gr_page"
  /\ LET w == arg[c].ws
         page == IF Existing(pages, PageIds) # {} THEN Min(Existing(pages, PageIds))
                 ELSE generateUUID(pages, PageIds)
     IN /\ pages' = [pages EXCEPT ![page] = newPage]
        /\ pc' = [pc EXCEPT ![c] = "ap_read"]
        /\ arg' = [arg EXCEPT ![c].page = page]
        /\ loc' = [loc EXCEPT ![c].i = @ + 1, ![c].pageIds = Append(@, page)]
        /\ overlap' = [overlap EXCEPT ![w] = @ \/ InFlightOn(w) # {}]
  /\ UNCHANGED <<workspaces, user_info, uploads, session, ret, rd, linkLog, linked, view, home, late, vapi>>

\* const { data: page, error: pageError } = await createPage({}, question)
\* if (page && !pageError) { pageIds.push(page.page_id);
\*   await addPageToWorkspace(workspace.workspace_id, page.page_id) ... }
\* else console.error(...)
handleGenerateReview_createPage(c) ==
  /\ pc[c] = "gr_page"
  /\ \E ok \in BOOLEAN :
       IF ok
       THEN LET w == arg[c].ws
                page == generateUUID(pages, PageIds)
            IN /\ pages' = [pages EXCEPT ![page] = newPage]
               /\ pc' = [pc EXCEPT ![c] = "ap_read"]
               /\ arg' = [arg EXCEPT ![c].page = page]
               /\ loc' = [loc EXCEPT ![c].i = @ + 1, ![c].pageIds = Append(@, page)]
               /\ overlap' = [overlap EXCEPT ![w] = @ \/ InFlightOn(w) # {}]
       ELSE /\ pc' = [pc EXCEPT ![c] = AfterQuestion(c, loc[c].i + 1)]
            /\ loc' = [loc EXCEPT ![c].i = @ + 1, ![c].pageErrors = @ + 1]
            /\ UNCHANGED <<pages, arg, overlap>>
  /\ UNCHANGED <<workspaces, user_info, uploads, session, ret, rd, linkLog, linked, view, home, late, vapi>>

\* variant: the loop is left at the first link that fails
handleGenerateReview_pageLinked_break(c) ==
  /\ pc[c] = "done" /\ loc[c].flow = "pages"
  /\ pc' = [pc EXCEPT ![c] = IF ret[c].error # NoError THEN "gr_update"
                             ELSE AfterQuestion(c, loc[c].i)]
  /\ loc' = [loc EXCEPT ![c].pageErrors = IF ret[c].error # NoError THEN @ + 1 ELSE @]
  /\ ret' = [ret EXCEPT ![c] = NoRet]
  /\ UNCHANGED <<storeVars, session, arg, rd, histVars, view, home, late, vapi>>

\* const { error: addError } = await addPageToWorkspace(...) has returned:
\* if (addError) console.error(...); the loop goes on with the next question
handleGenerateReview_pageLinked(c) ==
  /\ pc[c] = "done" /\ loc[c].flow = "pages"
  /\ pc' = [pc EXCEPT ![c] = AfterQuestion(c, loc[c].i)]
  /\ loc' = [loc EXCEPT ![c].pageErrors = IF ret[c].error # NoError THEN @ + 1 ELSE @]
  /\ ret' = [ret EXCEPT ![c] = NoRet]
  /\ UNCHANGED <<storeVars, session, arg, rd, histVars, view, home, late, vapi>>

\* step 6: update({ question_list: questions, num_completed: 0 })
\*   .eq('workspace_id', workspace.workspace_id); an error is only logged;
\* onClose(); navigate(`/problem-space/${workspace.workspace_id}`)
handleGenerateReview_updateWorkspace(c) ==
  /\ pc[c] = "gr_update"
  /\ LET w == arg[c].ws IN
     \E ok \in BOOLEAN :
       IF ok /\ workspaces[w].exists
       THEN workspaces' = [workspaces EXCEPT ![w].questions_set = TRUE,
                                             ![w].num_completed = 0]
       ELSE workspaces' = workspaces
  /\ Finish(c, arg[c].ws, NoError)
  /\ loc' = [loc EXCEPT ![c].flow = "end"]
  /\ UNCHANGED <<pages, user_info, uploads, session, arg, rd, histVars, view, home, late, vapi>>

\* finally { setIsLoading(false) }: the dialog can start the workflow again
handleGenerateReview_finally(c) ==
  /\ pc[c] = "done" /\ loc[c].flow = "end"
  /\ pc' = [pc EXCEPT ![c] = "idle"]
  /\ arg' = [arg EXCEPT ![c] = NoArg]
  /\ loc' = [loc EXCEPT ![c] = NoLoc]
  /\ ret' = [ret EXCEPT ![c] = NoRet]
  /\ UNCHANGED <<storeVars, session, rd, histVars, view, home, late, vapi>>

\* ---------------------------------------------------------------- aggregation
\* variant: without the order clause the rows come in the order of the id list
selectPagesIn_listOrder(pageIds) ==
  LET S == {p \in Range(pageIds) : pages[p].exists}
      first(p) == CHOOSE i \in DOMAIN pageIds :
                    pageIds[i] = p /\ \A j \in DOMAIN pageIds : pageIds[j] = p => i <= j
      found == CHOOSE f \in [1..Cardinality(S) -> S] :
                 \A j, k \in 1..Cardinality(S) : j < k => first(f[j]) < first(f[k])
  IN [i \in 1..Len(found) |-> [page_id |-> found[i], is_complete |-> pages[found[i]].is_complete]]

\* from('pages').select('*').in('page_id', pageIds).order('created_at', { ascending: true })
selectPagesIn(pageIds) ==
  LET found == OrderAsc({p \in Range(pageIds) : pages[p].exists})
  IN [i \in 1..Len(found) |-> [page_id |-> found[i], is_complete |-> pages[found[i]].is_complete]]

IsComplete(page) == page.is_complete

\* variant: every returned page is counted as complete
completedCountOf_all(rows) == Len(rows)

\* pages?.filter(page => page.is_complete).length || 0
completedCountOf(rows) == Len(SelectSeq(rows, IsComplete))

\* pages?.length || 0
totalCountOf(rows) == Len(rows)

\* variant: one complete page is enough
statusOf_any(completedCount, totalCount) ==
  IF completedCount > 0 THEN "completed" ELSE "in progress"

\* completedCount === totalCount && totalCount > 0 ? 'completed' : 'in progress'
statusOf(completedCount, totalCount) ==
  IF completedCount = totalCount /\ totalCount > 0 THEN "completed" ELSE "in progress"

\* the entry still waiting for its page lookup
pendingEntry(workspaceId, pageIds) ==
  [workspace_id |-> workspaceId, page_id_list |-> pageIds, pages |-> <<>>,
   completedCount |-> 0, totalCount |-> 0, status |-> "in progress", state |-> "pending"]

\* variant: the empty list goes through the general status rule without `totalCount > 0`
emptyEntry_completed(workspaceId, pageIds) ==
  [workspace_id |-> workspaceId, page_id_list |-> pageIds, pages |-> <<>>,
   completedCount |-> 0, totalCount |-> 0, status |-> "completed", state |-> "empty"]

\* if (pageIds.length === 0) return { ...workspace, pages: [], completedCount: 0, totalCount: 0, status: 'in progress' }
emptyEntry(workspaceId, pageIds) ==
  [workspace_id |-> workspaceId, page_id_list |-> pageIds, pages |-> <<>>,
   completedCount |-> 0, totalCount |-> 0, status |-> "in progress", state |-> "empty"]

\* variant: the failed lookup reports no pages at all
degradedEntry_zero(workspaceId, pageIds) ==
  [workspace_id |-> workspaceId, page_id_list |-> pageIds, pages |-> <<>>,
   completedCount |-> 0, totalCount |-> 0, status |-> "in progress", state |-> "degraded"]

\* if (pagesError) return { ...workspace, pages: [], completedCount: 0, totalCount: pageIds.length, status: 'in progress' }
degradedEntry(workspaceId, pageIds) ==
  [workspace_id |-> workspaceId, page_id_list |-> pageIds, pages |-> <<>>,
   completedCount |-> 0, totalCount |-> Len(pageIds), status |-> "in progress", state |-> "degraded"]

\* variant: the completed count is the stored num_completed
aggregatedEntry_stored(workspaceId, pageIds, rows) ==
  [workspace_id |-> workspaceId, page_id_list |-> pageIds, pages |-> rows,
   completedCount |-> workspaces[workspaceId].num_completed, totalCount |-> totalCountOf(rows),
   status |-> statusOf(workspaces[workspaceId].num_completed, totalCountOf(rows)),
   state |-> "aggregated"]

\* return { ...workspace, pages: pages || [], completedCount, totalCount, status }
aggregatedEntry(workspaceId, pageIds, rows) ==
  [workspace_id |-> workspaceId, page_id_list |-> pageIds, pages |-> rows,
   completedCount |-> completedCountOf(rows), totalCount |-> totalCountOf(rows),
   status |-> statusOf(completedCountOf(rows), totalCountOf(rows)), state |-> "aggregated"]

\* getUserWorkspacesWithPages has its own copy of the aggregation:
\* if (pageIds.length === 0) return { ...workspace, pages: [], completedCount: 0,
\*                                    totalCount: 0, status: 'in progress' }
getUserWorkspacesWithPages_emptyEntry(workspaceId, pageIds) ==
  [workspace_id |-> workspaceId, page_id_list |-> pageIds, pages |-> <<>>,
   completedCount |-> 0, totalCount |-> 0, status |-> "in progress", state |-> "empty"]

\* variant: the status is 'completed' as soon as one page is complete
getUserWorkspacesWithPages_entry_anyComplete(workspaceId, pageIds, rows) ==
  LET completedCount == Len(SelectSeq(rows, IsComplete))
      totalCount == Len(rows)
  IN [workspace_id |-> workspaceId, page_id_list |-> pageIds, pages |-> rows,
      completedCount |-> completedCount, totalCount |-> totalCount,
      status |-> (IF completedCount > 0 THEN "completed" ELSE "in progress"),
      state |-> "aggregated"]

\* variant: the total is taken from the id list, as the error branch does
getUserWorkspacesWithPages_entry_listLength(workspaceId, pageIds, rows) ==
  LET completedCount == Len(SelectSeq(rows, IsComplete))
      totalCount == Len(pageIds)
  IN [workspace_id |-> workspaceId, page_id_list |-> pageIds, pages |-> rows,
      completedCount |-> completedCount, totalCount |-> totalCount,
      status |-> (IF completedCount = totalCount /\ totalCount > 0
                  THEN "completed" ELSE "in progress"),
      state |-> "aggregated"]

\* const completedCount = pages?.filter(page => page.is_complete).length || 0
\* const totalCount = pages?.length || 0
\* const status = completedCount === totalCount && totalCount > 0 ? 'completed' : 'in progress'
\* return { ...workspace, pages: pages || [], completedCount, totalCount, status }
getUserWorkspacesWithPages_entry(workspaceId, pageIds, rows) ==
  LET completedCount == Len(SelectSeq(rows, IsComplete))
      totalCount == Len(rows)
  IN [workspace_id |-> workspaceId, page_id_list |-> pageIds, pages |-> rows,
      completedCount |-> completedCount, totalCount |-> totalCount,
      status |-> (IF completedCount = totalCount /\ totalCount > 0
                  THEN "completed" ELSE "in progress"),
      state |-> "aggregated"]

RdReturn(entries, hasData, error) ==
  rd' = [rd EXCEPT !.pc = "done", !.ids = <<>>, !.entries = entries,
                   !.hasData = hasData, !.error = error]

rdAcknowledge ==
  /\ rd.pc = "done"
  /\ rd' = IdleRd
  /\ UNCHANGED <<storeVars, session, pc, arg, loc, ret, histVars, view, home, late, vapi>>

\* ---------------------------------------------------------------- getWorkspaceWithPages
getWorkspaceWithPages_call ==
  /\ rd.pc = "idle"
  /\ \E workspaceId \in WsIds :
       rd' = [IdleRd EXCEPT !.pc = "gwp_workspace", !.op = "getWorkspaceWithPages", !.ws = workspaceId]
  /\ UNCHANGED <<storeVars, session, pc, arg, loc, ret, histVars, view, home, late, vapi>>

\* getWorkspace(workspaceId): .single() reports an error when no row matches,
\* so the `!workspace` branch is never taken with error = null
getWorkspaceWithPages_getWorkspace ==
  /\ rd.pc = "gwp_workspace"
  /\ \E ok \in BOOLEAN :
       LET row == workspaces[rd.ws] IN
       IF ~ok THEN RdReturn(<<>>, FALSE, StoreError)
       ELSE IF ~row.exists THEN RdReturn(<<>>, FALSE, NotFound)
       ELSE IF Len(row.page_id_list) = 0
            THEN RdReturn(<<emptyEntry(rd.ws, row.page_id_list)>>, TRUE, NoError)
            ELSE rd' = [rd EXCEPT !.pc = "gwp_pages", !.ids = row.page_id_list]
  /\ UNCHANGED <<storeVars, session, pc, arg, loc, ret, histVars, view, home, late, vapi>>

\* variant: a failed page lookup degrades to an entry with zeroed counts
getWorkspaceWithPages_getPages_degraded ==
  /\ rd.pc = "gwp_pages"
  /\ \E ok \in BOOLEAN :
       IF ok
       THEN RdReturn(<<aggregatedEntry(rd.ws, rd.ids, selectPagesIn(rd.ids))>>, TRUE, NoError)
       ELSE RdReturn(<<degradedEntry(rd.ws, rd.ids)>>, TRUE, NoError)
  /\ UNCHANGED <<storeVars, session, pc, arg, loc, ret, histVars, view, home, late, vapi>>

\* const { data: pages, error: pagesError } = await supabase.from('pages')...
\* if (pagesError) throw pagesError; the catch returns { data: null, error }
getWorkspaceWithPages_getPages ==
  /\ rd.pc = "gwp_pages"
  /\ \E ok \in BOOLEAN :
       IF ok
       THEN RdReturn(<<aggregatedEntry(rd.ws, rd.ids, selectPagesIn(rd.ids))>>, TRUE, NoError)
       ELSE RdReturn(<<>>, FALSE, StoreError)
  /\ UNCHANGED <<storeVars, session, pc, arg, loc, ret, histVars, view, home, late, vapi>>

\* ---------------------------------------------------------------- getUserWorkspacesWithPages
getUserWorkspacesWithPages_call ==
  /\ rd.pc = "idle"
  /\ \E userId \in Users :
       rd' = [IdleRd EXCEPT !.pc = "guwp_user", !.op = "getUserWorkspacesWithPages", !.user = userId]
  /\ UNCHANGED <<storeVars, session, pc, arg, loc, ret, histVars, view, home, late, vapi>>

\* getUserWorkspaces -> getUserInfo(userId): select('*').eq('user_id', userId).single();
\* if (userError) throw userError;  an empty or missing list gives { data: [], error: null }
getUserInfo ==
  /\ rd.pc = "guwp_user"
  /\ \E ok \in BOOLEAN :
       LET row == user_info[rd.user] IN
       IF ~ok THEN RdReturn(<<>>, FALSE, StoreError)
       ELSE IF ~row.exists THEN RdReturn(<<>>, FALSE, NotFound)
       ELSE IF Len(row.workspace_id_list) = 0 THEN RdReturn(<<>>, TRUE, NoError)
       ELSE rd' = [rd EXCEPT !.pc = "guwp_workspaces", !.ids = row.workspace_id_list]
  /\ UNCHANGED <<storeVars, session, pc, arg, loc, ret, histVars, view, home, late, vapi>>

\* from('workspaces').select('*').in('workspace_id', list).order('created_at', { ascending: false })
selectWorkspacesIn(workspaceIds) == OrderDesc({w \in Range(workspaceIds) : workspaces[w].exists})

\* the synchronous part of workspaces.map(async (workspace) => ...): a workspace
\* with no page ids is answered at once, the others wait for their page lookup
firstEntry(workspaceId) ==
  LET pageIds == workspaces[workspaceId].page_id_list IN
  IF Len(pageIds) = 0 THEN getUserWorkspacesWithPages_emptyEntry(workspaceId, pageIds)
  ELSE pendingEntry(workspaceId, pageIds)

Pending(entries) == {i \in 1..Len(entries) : entries[i].state = "pending"}

getUserWorkspaces ==
  /\ rd.pc = "guwp_workspaces"
  /\ \E ok \in BOOLEAN :
       IF ~ok THEN RdReturn(<<>>, FALSE, StoreError)
       ELSE LET found == selectWorkspacesIn(rd.ids)
                entries == [i \in 1..Len(found) |-> firstEntry(found[i])]
            IN IF Pending(entries) = {}
               THEN RdReturn(entries, TRUE, NoError)
               ELSE rd' = [rd EXCEPT !.pc = "guwp_pages", !.ids = <<>>, !.entries = entries]
  /\ UNCHANGED <<storeVars, session, pc, arg, loc, ret, histVars, view, home, late, vapi>>

\* one of the page lookups of Promise.all completes
getUserWorkspacesWithPages_getPages ==
  /\ rd.pc = "guwp_pages"
  /\ \E i \in Pending(rd.entries), ok \in BOOLEAN :
       LET e == rd.entries[i]
           entries == [rd.entries EXCEPT ![i] =
                         IF ok THEN getUserWorkspacesWithPages_entry(
                                      e.workspace_id, e.page_id_list,
                                      selectPagesIn(e.page_id_list))
                         ELSE degradedEntry(e.workspace_id, e.page_id_list)]
       IN IF Pending(entries) = {}
          THEN RdReturn(entries, TRUE, NoError)
          ELSE rd' = [rd EXCEPT !.entries = entries]
  /\ UNCHANGED <<storeVars, session, pc, arg, loc, ret, histVars, view, home, late, vapi>>

\* ---------------------------------------------------------------- ProblemSpace
\* The page of one workspace.  A handler that is running keeps the values it
\* closed over when it was started (view.submit); saves started by the
\* navigation buttons run on their own (view.saving).

\* the question screen is rendered: not loading, no error, data with at least one page
Shown ==
  /\ view.sessionId # NoId
  /\ ~view.isLoading
  /\ view.error = NoError
  /\ view.workspaceData.loaded
  /\ Len(view.workspaceData.pages) > 0

\* the question screen has rendered: it reads currentQuestion.is_complete, so
\* with currentQuestion undefined the render throws and no button is there
Rendered == Shown /\ view.currentQuestionIndex + 1 \in DOMAIN view.workspaceData.pages

\* const currentQuestion = questions[currentQuestionIndex]
currentQuestion == view.workspaceData.pages[view.currentQuestionIndex + 1]

\* loadWorkspaceData: setIsLoading(true); setError(null); await getWorkspaceWithPages(sessionId)
loadWorkspaceData_call(sessionId) ==
  rd' = [IdleRd EXCEPT !.pc = "gwp_workspace", !.op = "getWorkspaceWithPages", !.ws = sessionId]

\* the route /problem-space/:sessionId is entered; useEffect(() => { loadWorkspaceData() })
ProblemSpace_mount ==
  /\ view.sessionId = NoId /\ view.submit.pc = "idle" /\ view.saving = {}
  /\ rd.pc = "idle"
  /\ \E sessionId \in WsIds :
       /\ view' = [NoView EXCEPT !.sessionId = sessionId, !.isLoading = TRUE]
       /\ loadWorkspaceData_call(sessionId)
  /\ UNCHANGED <<storeVars, session, pc, arg, loc, ret, histVars, home, late, vapi>>

\* setWorkspaceData(data)
loadedData(entry) ==
  [loaded |-> TRUE, pages |-> entry.pages, completedCount |-> entry.completedCount,
   totalCount |-> entry.totalCount, status |-> entry.status]

\* if (error) setError('Failed to load workspace data') else if (!data)
\* setError('Workspace not found') else setWorkspaceData(data);
\* finally setIsLoading(false).  A page that has been left ignores the answer.
loadWorkspaceData_return ==
  /\ rd.pc = "done" /\ rd.op = "getWorkspaceWithPages"
  /\ rd' = IdleRd
  /\ view' = IF view.sessionId = NoId THEN view
             ELSE IF rd.error # NoError
                  THEN [view EXCEPT !.error = LoadFailed, !.isLoading = FALSE]
             ELSE IF ~rd.hasData
                  THEN [view EXCEPT !.error = WorkspaceNotFound, !.isLoading = FALSE]
             ELSE [view EXCEPT !.workspaceData = loadedData(rd.entries[1]),
                               !.isLoading = FALSE]
  /\ UNCHANGED <<storeVars, session, pc, arg, loc, ret, histVars, home, late, vapi>>

\* the `Try Again` button of the error screen: onClick={loadWorkspaceData}
loadWorkspaceData_retry ==
  /\ view.sessionId # NoId /\ ~view.isLoading /\ view.error # NoError
  /\ rd.pc = "idle"
  /\ view' = [view EXCEPT !.isLoading = TRUE, !.error = NoError]
  /\ loadWorkspaceData_call(view.sessionId)
  /\ UNCHANGED <<storeVars, session, pc, arg, loc, ret, histVars, home, late, vapi>>

\* what the continuation of loadWorkspaceData does with the response r:
\* if (error) setError('Failed to load workspace data') else if (!data)
\* setError('Workspace not found') else setWorkspaceData(data);
\* finally setIsLoading(false)
loadWorkspaceData_settle(r) ==
  IF r.error # NoError
  THEN [view EXCEPT !.error = LoadFailed, !.isLoading = FALSE]
  ELSE IF ~r.hasData
       THEN [view EXCEPT !.error = WorkspaceNotFound, !.isLoading = FALSE]
       ELSE [view EXCEPT !.workspaceData = loadedData(r.entries[1]), !.isLoading = FALSE]

\* a request that is superseded goes on: its response stays under way.  The
\* reads of one request at a time are followed, so a request is superseded
\* after its reads were made.
Superseded(request) ==
  IF rd.pc = "done"
  THEN late.r.pc = "idle" /\ late' = [r |-> rd, instance |-> home.instance, request |-> request]
  ELSE rd.pc = "idle" /\ late' = late

\* the route parameter changes while the page stays mounted (the router keeps
\* the element of /problem-space/:sessionId): loadWorkspaceData is made again
\* by useCallback(..., [sessionId]) and the effect runs it; the other state
\* of the page, currentQuestionIndex and workspaceData included, is kept
ProblemSpace_sessionIdChanged ==
  /\ view.sessionId # NoId
  /\ Superseded(NoId)
  /\ \E sessionId \in WsIds \ {view.sessionId} :
       /\ view' = [view EXCEPT !.sessionId = sessionId, !.isLoading = TRUE, !.error = NoError]
       /\ loadWorkspaceData_call(sessionId)
  /\ UNCHANGED <<storeVars, session, pc, arg, loc, ret, histVars, home, vapi>>

\* the response of the superseded request arrives: its continuation runs as
\* that of any other request (on the page that made the request: a page that
\* was left, or mounted anew since, is not touched)
loadWorkspaceData_late ==
  /\ late.r.pc = "done" /\ late.r.op = "getWorkspaceWithPages"
  /\ late' = NoLate
  /\ view' = IF view.sessionId = NoId \/ late.instance # home.instance THEN view
             ELSE loadWorkspaceData_settle(late.r)
  /\ UNCHANGED <<storeVars, session, pc, arg, loc, ret, rd, histVars, home, vapi>>

\* if (currentQuestionIndex < totalQuestions - 1) { saveFunction();
\*   setCurrentQuestionIndex(currentQuestionIndex + 1) }
goToNextQuestion ==
  /\ Rendered
  /\ view.currentQuestionIndex < Len(view.workspaceData.pages) - 1
  /\ view' = [view EXCEPT !.currentQuestionIndex = @ + 1,
                          !.saving = @ \cup {currentQuestion.page_id}]
  /\ UNCHANGED <<storeVars, session, pc, arg, loc, ret, rd, histVars, home, late, vapi>>

\* if (currentQuestionIndex > 0) { saveFunction();
\*   setCurrentQuestionIndex(currentQuestionIndex - 1) }
goToPreviousQuestion ==
  /\ Rendered
  /\ view.currentQuestionIndex > 0
  /\ view' = [view EXCEPT !.currentQuestionIndex = @ - 1,
                          !.saving = @ \cup {currentQuestion.page_id}]
  /\ UNCHANGED <<storeVars, session, pc, arg, loc, ret, rd, histVars, home, late, vapi>>

\* navigate('/home'): the page is left, the handlers in flight run on
goBackToHome ==
  /\ view.sessionId # NoId /\ ~view.isLoading
  /\ view' = [NoView EXCEPT !.submit = view.submit, !.saving = view.saving]
  /\ UNCHANGED <<storeVars, session, pc, arg, loc, ret, rd, histVars, home, late, vapi>>

\* saveSnapshot: await updatePage(questionId, { snapshot: snapshotData })
saveSnapshot ==
  /\ \E questionId \in view.saving, ok \in BOOLEAN :
       /\ pages' = IF ok /\ pages[questionId].exists
                   THEN updatePage(questionId, [snapshot |-> "saved"])
                   ELSE pages
       /\ view' = [view EXCEPT !.saving = @ \ {questionId}]
  /\ UNCHANGED <<workspaces, user_info, uploads, session, pc, arg, loc, ret, rd, histVars, home, late, vapi>>

\* the Submit button (disabled while submitStatus === 'submitting'):
\* handleSubmit runs with the currentQuestion and the onQuestionComplete of
\* the render it was created in
handleSubmit_call ==
  /\ Rendered
  /\ view.submit.pc = "idle"
  /\ view' = [view EXCEPT !.submit =
                 [pc |-> "save", currentQuestion |-> currentQuestion,
                  currentQuestionIndex |-> view.currentQuestionIndex,
                  workspaceData |-> view.workspaceData]]
  /\ UNCHANGED <<storeVars, session, pc, arg, loc, ret, rd, histVars, home, late, vapi>>

\* const { error } = await updatePage(currentQuestion.page_id, { snapshot: snapshotData })
\* if (error) throw error
handleSubmit_saveSnapshot ==
  /\ view.submit.pc = "save"
  /\ LET page_id == view.submit.currentQuestion.page_id IN
     \E ok \in BOOLEAN :
       IF ok /\ pages[page_id].exists
       THEN /\ pages' = updatePage(page_id, [snapshot |-> "saved"])
            /\ view' = [view EXCEPT !.submit.pc = "grade"]
       ELSE /\ pages' = pages
            /\ view' = [view EXCEPT !.submit = NoSubmit]
  /\ UNCHANGED <<workspaces, user_info, uploads, session, pc, arg, loc, ret, rd, histVars, home, late, vapi>>

Verdicts == {"correct", "incorrect", "none", "failed"}

\* the check-problem request and its verdict:
\* if (result.isCorrect === true) { if (!currentQuestion.is_complete) { updatePage ... } }
handleSubmit_grade ==
  /\ view.submit.pc = "grade"
  /\ \E verdict \in Verdicts :
       view' = IF verdict = "correct" /\ ~view.submit.currentQuestion.is_complete
               THEN [view EXCEPT !.submit.pc = "mark"]
               ELSE [view EXCEPT !.submit = NoSubmit]
  /\ UNCHANGED <<storeVars, session, pc, arg, loc, ret, rd, histVars, home, late, vapi>>

\* variant: only the page is marked, the counters are left as they were
onQuestionComplete_pagesOnly(workspaceData, index) ==
  [workspaceData EXCEPT !.pages = [workspaceData.pages EXCEPT ![index + 1].is_complete = TRUE]]

\* onQuestionComplete of the render the handler was created in: the page at
\* that render's index is set complete in that render's workspaceData and
\* completedCount and status are computed again
onQuestionComplete(workspaceData, index) ==
  LET updatedPages == [workspaceData.pages EXCEPT ![index + 1].is_complete = TRUE]
      completedCount == Len(SelectSeq(updatedPages, IsComplete))
  IN [workspaceData EXCEPT
        !.pages = updatedPages,
        !.completedCount = completedCount,
        !.status = IF completedCount = Len(updatedPages) /\ Len(updatedPages) > 0
                   THEN "completed" ELSE "in progress"]

\* const { error: updateError } = await updatePage(currentQuestion.page_id, { is_complete: true })
\* if (!updateError) onQuestionComplete()
handleSubmit_markComplete ==
  /\ view.submit.pc = "mark"
  /\ LET page_id == view.submit.currentQuestion.page_id IN
     \E ok \in BOOLEAN :
       IF ok /\ pages[page_id].exists
       THEN /\ pages' = updatePage(page_id, [is_complete |-> TRUE])
            /\ view' = [view EXCEPT
                          !.submit = NoSubmit,
                          !.workspaceData =
                             IF view.sessionId = NoId THEN @
                             ELSE onQuestionComplete(view.submit.workspaceData,
                                                     view.submit.currentQuestionIndex)]
       ELSE /\ pages' = pages
            /\ view' = [view EXCEPT !.submit = NoSubmit]
  /\ UNCHANGED <<workspaces, user_info, uploads, session, pc, arg, loc, ret, rd, histVars, home, late, vapi>>

\* ---------------------------------------------------------------- Home
\* The list of the user's workspaces.  loadWorkspaces runs on mount and when
\* the upload dialog is closed; its continuation sets the state of the
\* instance that started it.

\* loadWorkspaces: setIsLoading(true); setError(null);
\* await getUserWorkspacesWithPages(session.user.id)
loadWorkspaces_call ==
  \E userId \in Users :
    rd' = [IdleRd EXCEPT !.pc = "guwp_user", !.op = "getUserWorkspacesWithPages", !.user = userId]

\* the route /home is entered by a signed-in user: a new instance with the
\* initial state; useEffect(() => { loadWorkspaces() }, [session.user.id])
Home_mount ==
  /\ session
  /\ ~home.mounted /\ view.sessionId = NoId
  /\ home.instance < MaxMounts
  /\ home' = [NoHome EXCEPT !.instance = home.instance + 1, !.mounted = TRUE,
                            !.isLoading = TRUE, !.requests = 1]
  /\ Superseded(NoId)
  /\ loadWorkspaces_call
  /\ UNCHANGED <<storeVars, session, pc, arg, loc, ret, histVars, view, vapi>>

\* closeImageModal: setIsImageModalOpen(false); setUploadedImage(null); loadWorkspaces()
closeImageModal ==
  /\ home.mounted
  /\ home.requests < MaxLoads
  /\ Superseded(home.requests)
  /\ home' = [home EXCEPT !.isLoading = TRUE, !.error = NoError, !.requests = @ + 1]
  /\ loadWorkspaces_call
  /\ UNCHANGED <<storeVars, session, pc, arg, loc, ret, histVars, view, vapi>>

\* what the continuation of loadWorkspaces does with the response r of request n:
\* if (error) setError('Failed to load workspaces') else setWorkspaces(data || []);
\* finally setIsLoading(false)
loadWorkspaces_settle(r, n) ==
  IF r.error # NoError
  THEN [home EXCEPT !.error = LoadWorkspacesFailed, !.isLoading = FALSE,
                    !.applied = Append(@, [request |-> n, workspaces |-> -1])]
  ELSE [home EXCEPT !.workspaces = r.entries, !.isLoading = FALSE,
                    !.applied = Append(@, [request |-> n, workspaces |-> Len(r.entries)])]

\* the response of the latest request arrives
loadWorkspaces_return ==
  /\ rd.pc = "done" /\ rd.op = "getUserWorkspacesWithPages"
  /\ home.instance > 0
  /\ rd' = IdleRd
  /\ home' = loadWorkspaces_settle(rd, home.requests)
  /\ UNCHANGED <<storeVars, session, pc, arg, loc, ret, histVars, view, late, vapi>>

\* variant: the continuation checks that no later request was made and that
\* the page is still mounted
loadWorkspaces_late_checked ==
  /\ late.r.pc = "done" /\ late.r.op = "getUserWorkspacesWithPages"
  /\ late' = NoLate
  /\ home' = IF late.instance = home.instance /\ home.mounted /\ late.request = home.requests
             THEN loadWorkspaces_settle(late.r, late.request) ELSE home
  /\ UNCHANGED <<storeVars, session, pc, arg, loc, ret, rd, histVars, view, vapi>>

\* the response of an earlier request arrives: the continuation sets the state
\* of the instance that made the request, mounted or not
loadWorkspaces_late ==
  /\ late.r.pc = "done" /\ late.r.op = "getUserWorkspacesWithPages"
  /\ late' = NoLate
  /\ home' = IF late.instance = home.instance
             THEN loadWorkspaces_settle(late.r, late.request) ELSE home
  /\ UNCHANGED <<storeVars, session, pc, arg, loc, ret, rd, histVars, view, vapi>>

\* a card of the list is clicked: navigate(`/problem-space/${sessionId}`).  Home
\* is unmounted, the ProblemSpace page is mounted and starts its load; a
\* request of Home whose response has not arrived goes on.
SessionCard_navigate ==
  /\ home.mounted /\ ~home.isLoading /\ home.error = NoError
  /\ view.sessionId = NoId /\ view.submit.pc = "idle" /\ view.saving = {}
  /\ Superseded(home.requests)
  /\ \E i \in 1..Len(home.workspaces) :
       LET sessionId == home.workspaces[i].workspace_id IN
       /\ view' = [NoView EXCEPT !.sessionId = sessionId, !.isLoading = TRUE]
       /\ loadWorkspaceData_call(sessionId)
  /\ home' = [home EXCEPT !.mounted = FALSE]
  /\ UNCHANGED <<storeVars, session, pc, arg, loc, ret, histVars, vapi>>

\* ---------------------------------------------------------------- specifications
\* Spec: page linking by concurrent callers
Next ==
  \/ \E c \in Callers : acknowledge(c)
  \/ \E c \in Callers : createWorkspace(c)
  \/ \E c \in Callers : addPageToWorkspace_call(c)
  \/ \E c \in Callers : addPageToWorkspace_getWorkspace(c)
  \/ \E c \in Callers : addPageToWorkspace_update(c)
  \/ \E c \in Callers : handleGenerateReview_updateQuestions(c)

Spec == Init /\ [][Next]_vars

\* SpecUser: the user side (session, workspace creation with upload, user linking)
NextUser ==
  \/ signIn
  \/ signOut
  \/ \E c \in Callers : acknowledge(c)
  \/ \E c \in Callers : addWorkspaceToUser_call(c)
  \/ \E c \in Callers : addWorkspaceToUser_getSession(c)
  \/ \E c \in Callers : checkUserInfoExists(c)
  \/ \E c \in Callers : addWorkspaceToUser_write(c)
  \/ \E c \in Callers : createWorkspaceWithUpload_call(c)
  \/ \E c \in Callers : uploadFile(c)
  \/ \E c \in Callers : createWorkspaceWithUpload_createWorkspace(c)

SpecUser == Init /\ [][NextUser]_vars

\* SpecAgg: both aggregation reads against one signed-in writer that builds and changes the store
Writer == Min(Callers)

NextAgg ==
  \/ signIn
  \/ acknowledge(Writer)
  \/ createWorkspaceWithUpload_call(Writer)
  \/ uploadFile(Writer)
  \/ createWorkspaceWithUpload_createWorkspace(Writer)
  \/ addWorkspaceToUser_getSession(Writer)
  \/ checkUserInfoExists(Writer)
  \/ addWorkspaceToUser_write(Writer)
  \/ createPage(Writer)
  \/ markPageComplete(Writer)
  \/ addPageToWorkspace_call(Writer)
  \/ addPageToWorkspace_getWorkspace(Writer)
  \/ addPageToWorkspace_update(Writer)
  \/ rdAcknowledge
  \/ getWorkspaceWithPages_call
  \/ getWorkspaceWithPages_getWorkspace
  \/ getWorkspaceWithPages_getPages
  \/ getUserWorkspacesWithPages_call
  \/ getUserInfo
  \/ getUserWorkspaces
  \/ getUserWorkspacesWithPages_getPages

SpecAgg == Init /\ [][NextAgg]_vars

\* SpecLink: one caller that makes its linking calls one after the other
NextLink ==
  \/ signIn
  \/ acknowledge(Writer)
  \/ createWorkspace(Writer)
  \/ addPageToWorkspace_call(Writer)
  \/ addPageToWorkspace_getWorkspace(Writer)
  \/ addPageToWorkspace_update(Writer)
  \/ addWorkspaceToUser_call(Writer)
  \/ addWorkspaceToUser_getSession(Writer)
  \/ checkUserInfoExists(Writer)
  \/ addWorkspaceToUser_write(Writer)

SpecLink == Init /\ [][NextLink]_vars

\* SpecFlow: the generate-review workflow, run by every caller any number of times
NextFlow ==
  \/ signIn
  \/ \E c \in Callers : handleGenerateReview_call(c)
  \/ \E c \in Callers : handleGenerateReview_getSession(c)
  \/ \E c \in Callers : handleGenerateReview_generate(c)
  \/ \E c \in Callers : uploadFile(c)
  \/ \E c \in Callers : createWorkspaceWithUpload_createWorkspace(c)
  \/ \E c \in Callers : addWorkspaceToUser_getSession(c)
  \/ \E c \in Callers : checkUserInfoExists(c)
  \/ \E c \in Callers : addWorkspaceToUser_write(c)
  \/ \E c \in Callers : handleGenerateReview_workspaceCreated(c)
  \/ \E c \in Callers : handleGenerateReview_createPage(c)
  \/ \E c \in Callers : addPageToWorkspace_getWorkspace(c)
  \/ \E c \in Callers : addPageToWorkspace_update(c)
  \/ \E c \in Callers : handleGenerateReview_pageLinked(c)
  \/ \E c \in Callers : handleGenerateReview_updateWorkspace(c)
  \/ \E c \in Callers : handleGenerateReview_finally(c)

SpecFlow == Init /\ [][NextFlow]_vars

\* ---------------------------------------------------------------- services/vapi.ts
\* the question texts and canvas descriptions startVapi is called with
Contexts == {"q1", "q2"}
CanvasDescriptions == {Undefined, "", "work"}

\* one entry of the history: a call of startVapi (with its arguments) or of
\* stopVapi, a call-start event, or a vapi.send (with the message content)
Event(event, text, work) == [event |-> event, text |-> text, work |-> work]

\* Question: ${pendingContext.text}
\* Student's Work: ${pendingContext.canvasDescription || 'No work shown yet'}
messageContent(pendingContext) ==
  [text |-> pendingContext.text,
   work |-> IF pendingContext.canvasDescription \in {Undefined, ""}
            THEN "No work shown yet"
            ELSE pendingContext.canvasDescription]

\* pendingContext = { text: context, canvasDescription };  vapi.start(assistantId)
\* (whether the client begins another call while one is being set up is its own matter)
startVapi ==
  /\ Len(vapi.log) < MaxVapiEvents
  /\ \E context \in Contexts, canvasDescription \in CanvasDescriptions, begun \in BOOLEAN :
       vapi' = [pendingContext |-> [text |-> context, canvasDescription |-> canvasDescription],
                calls |-> IF begun THEN vapi.calls + 1 ELSE vapi.calls,
                log |-> Append(vapi.log, Event("startVapi", context, canvasDescription))]
  /\ UNCHANGED <<storeVars, session, pc, arg, loc, ret, rd, histVars, view, home, late>>

\* vapi.stop();  pendingContext = null
\* (a call that is being set up may or may not still emit call-start)
stopVapi ==
  /\ Len(vapi.log) < MaxVapiEvents
  /\ \E cancelled \in BOOLEAN :
       vapi' = [pendingContext |-> Null,
                calls |-> IF cancelled THEN 0 ELSE vapi.calls,
                log |-> Append(vapi.log, Event("stopVapi", "null", "null"))]
  /\ UNCHANGED <<storeVars, session, pc, arg, loc, ret, rd, histVars, view, home, late>>

\* variant: the pending context stays after it was sent
vapi_on_callStart_keep ==
  /\ vapi.calls > 0
  /\ Len(vapi.log) + 1 < MaxVapiEvents
  /\ IF vapi.pendingContext # Null
     THEN LET content == messageContent(vapi.pendingContext) IN
          vapi' = [vapi EXCEPT !.calls = @ - 1,
                               !.log = @ \o <<Event("call-start", "null", "null"),
                                              Event("send", content.text, content.work)>>]
     ELSE vapi' = [vapi EXCEPT !.calls = @ - 1,
                               !.log = Append(@, Event("call-start", "null", "null"))]
  /\ UNCHANGED <<storeVars, session, pc, arg, loc, ret, rd, histVars, view, home, late>>

\* vapi.on('call-start', () => { if (pendingContext) { vapi.send({ type: 'add-message',
\*   message: { role: 'user', content: messageContent } }); pendingContext = null; } })
vapi_on_callStart ==
  /\ vapi.calls > 0
  /\ Len(vapi.log) + 1 < MaxVapiEvents
  /\ IF vapi.pendingContext # Null
     THEN LET content == messageContent(vapi.pendingContext) IN
          vapi' = [pendingContext |-> Null,
                   calls |-> vapi.calls - 1,
                   log |-> vapi.log \o <<Event("call-start", "null", "null"),
                                         Event("send", content.text, content.work)>>]
     ELSE vapi' = [vapi EXCEPT !.calls = @ - 1,
                               !.log = Append(@, Event("call-start", "null", "null"))]
  /\ UNCHANGED <<storeVars, session, pc, arg, loc, ret, rd, histVars, view, home, late>>

\* SpecVoice: the voice-tutor service and the events of its client
NextVoice ==
  \/ startVapi
  \/ stopVapi
  \/ vapi_on_callStart

SpecVoice == Init /\ [][NextVoice]_vars

\* await addPageToWorkspace(...) called outside the workflow has returned
addPageToWorkspace_return(c) ==
  /\ loc[c].flow = "none"
  /\ arg[c].page # NoId
  /\ acknowledge(c)

\* SpecOrder: one caller that runs the generate-review workflow and, between
\* runs, links existing pages to any workspace in any order, and getWorkspaceWithPages
NextOrder ==
  \/ signIn
  \/ handleGenerateReview_call(Writer)
  \/ handleGenerateReview_getSession(Writer)
  \/ handleGenerateReview_generate(Writer)
  \/ uploadFile(Writer)
  \/ createWorkspaceWithUpload_createWorkspace(Writer)
  \/ addWorkspaceToUser_getSession(Writer)
  \/ checkUserInfoExists(Writer)
  \/ addWorkspaceToUser_write(Writer)
  \/ handleGenerateReview_workspaceCreated(Writer)
  \/ handleGenerateReview_createPage(Writer)
  \/ handleGenerateReview_pageLinked(Writer)
  \/ handleGenerateReview_updateWorkspace(Writer)
  \/ handleGenerateReview_finally(Writer)
  \/ addPageToWorkspace_call(Writer)
  \/ addPageToWorkspace_getWorkspace(Writer)
  \/ addPageToWorkspace_update(Writer)
  \/ addPageToWorkspace_return(Writer)
  \/ rdAcknowledge
  \/ getWorkspaceWithPages_call
  \/ getWorkspaceWithPages_getWorkspace
  \/ getWorkspaceWithPages_getPages

SpecOrder == Init /\ [][NextOrder]_vars

\* SpecStored: one caller that builds the store and rewrites the stored num_completed
NextStored ==
  \/ signIn
  \/ acknowledge(Writer)
  \/ createWorkspaceWithUpload_call(Writer)
  \/ uploadFile(Writer)
  \/ createWorkspaceWithUpload_createWorkspace(Writer)
  \/ updateWorkspace(Writer)
  \/ createPage(Writer)
  \/ markPageComplete(Writer)
  \/ addPageToWorkspace_call(Writer)
  \/ addPageToWorkspace_getWorkspace(Writer)
  \/ addPageToWorkspace_update(Writer)
  \/ addWorkspaceToUser_getSession(Writer)
  \/ checkUserInfoExists(Writer)
  \/ addWorkspaceToUser_write(Writer)

SpecStored == Init /\ [][NextStored]_vars

\* SpecView: the ProblemSpace page against one caller that builds the store
NextView ==
  \/ acknowledge(Writer)
  \/ createWorkspace(Writer)
  \/ createPage(Writer)
  \/ markPageComplete(Writer)
  \/ addPageToWorkspace_call(Writer)
  \/ addPageToWorkspace_getWorkspace(Writer)
  \/ addPageToWorkspace_update(Writer)
  \/ ProblemSpace_mount
  \/ getWorkspaceWithPages_getWorkspace
  \/ getWorkspaceWithPages_getPages
  \/ loadWorkspaceData_return
  \/ loadWorkspaceData_retry
  \/ goToNextQuestion
  \/ goToPreviousQuestion
  \/ goBackToHome
  \/ saveSnapshot
  \/ handleSubmit_call
  \/ handleSubmit_saveSnapshot
  \/ handleSubmit_grade
  \/ handleSubmit_markComplete

SpecView == Init /\ [][NextView]_vars

\* SpecRoute: the ProblemSpace page stays mounted while its route parameter changes
NextRoute ==
  \/ acknowledge(Writer)
  \/ createWorkspace(Writer)
  \/ createPage(Writer)
  \/ addPageToWorkspace_call(Writer)
  \/ addPageToWorkspace_getWorkspace(Writer)
  \/ addPageToWorkspace_update(Writer)
  \/ ProblemSpace_mount
  \/ ProblemSpace_sessionIdChanged
  \/ getWorkspaceWithPages_getWorkspace
  \/ getWorkspaceWithPages_getPages
  \/ loadWorkspaceData_return
  \/ loadWorkspaceData_late
  \/ loadWorkspaceData_retry
  \/ goToNextQuestion
  \/ goToPreviousQuestion

SpecRoute == Init /\ [][NextRoute]_vars

\* SpecNav: the Home page and the ProblemSpace page with their load requests,
\* beside one caller that creates workspaces for the user
NextNav ==
  \/ signIn
  \/ acknowledge(Writer)
  \/ createWorkspaceWithUpload_call(Writer)
  \/ uploadFile(Writer)
  \/ createWorkspaceWithUpload_createWorkspace(Writer)
  \/ addWorkspaceToUser_getSession(Writer)
  \/ checkUserInfoExists(Writer)
  \/ addWorkspaceToUser_write(Writer)
  \/ Home_mount
  \/ closeImageModal
  \/ getUserInfo
  \/ getUserWorkspaces
  \/ loadWorkspaces_return
  \/ loadWorkspaces_late
  \/ SessionCard_navigate
  \/ ProblemSpace_sessionIdChanged
  \/ getWorkspaceWithPages_getWorkspace
  \/ loadWorkspaceData_return
  \/ loadWorkspaceData_late
  \/ loadWorkspaceData_retry
  \/ goBackToHome

SpecNav == Init /\ [][NextNav]_vars

\* ================================================================ properties
PageList(w) == workspaces[w].page_id_list
Quiescent(w) == InFlightOn(w) = {}

\* pages of the store that a list of page ids references, and those of them that are complete
Referenced(pageIds) == {p \in PageIds : pages[p].exists /\ p \in Range(pageIds)}
ReferencedComplete(pageIds) == {p \in Referenced(pageIds) : pages[p].is_complete}

GWP == "getWorkspaceWithPages"
GUWP == "getUserWorkspacesWithPages"

\* C1: getWorkspaceWithPages returns totalCount = number of existing pages the
\* page_id_list it read references, completedCount = number of those that are
\* complete when the pages are read, and status 'completed' iff
\* completedCount = totalCount > 0, otherwise 'in progress'.
C1_AggregationCounts ==
  [][ (rd.op = GWP /\ rd.pc \in {"gwp_workspace", "gwp_pages"} /\ rd'.pc = "done" /\ rd'.hasData)
      => LET pageIds == IF rd.pc = "gwp_pages" THEN rd.ids ELSE PageList(rd.ws)
             N == Cardinality(Referenced(pageIds))
             done == Cardinality(ReferencedComplete(pageIds))
             e == rd'.entries[1]
         IN /\ Len(rd'.entries) = 1
            /\ rd'.error = NoError
            /\ e.totalCount = N
            /\ e.completedCount = done
            /\ e.status = (IF done = N /\ N > 0 THEN "completed" ELSE "in progress") ]_vars

C1_Witness ==
  /\ rd.op = GWP /\ rd.pc = "done" /\ rd.hasData
  /\ rd.entries[1].totalCount = 2
  /\ rd.entries[1].completedCount = 1
  /\ rd.entries[1].status = "in progress"

\* C2: interleaved addPageToWorkspace calls on one workspace can lose an update:
\* all calls have returned without error and the list is shorter than the
\* number of calls (the witness).  The loss happens only when two calls were in
\* flight together, and the list still ends with the id of the last call that
\* returned and holds only ids that were linked.
C2_LostUpdateOnlyWhenInterleaved ==
  \A w \in WsIds :
    Len(linkLog[w]) >= 1
    => /\ workspaces[w].exists
       /\ Len(PageList(w)) >= 1
       /\ Len(PageList(w)) <= Len(linkLog[w])
       /\ Range(PageList(w)) \subseteq Range(linkLog[w])
       /\ PageList(w)[Len(PageList(w))] = linkLog[w][Len(linkLog[w])]
       /\ (Len(PageList(w)) < Len(linkLog[w]) => overlap[w])

C2_Witness ==
  \E w \in WsIds :
    /\ Quiescent(w)
    /\ \A c \in Callers : ret[c].error = NoError
    /\ Len(linkLog[w]) = 2
    /\ Len(PageList(w)) = 1

\* C3: addPageToWorkspace calls made one at a time on a fresh workspace leave
\* page_id_list equal to the page ids of the calls that returned without
\* error, in call order.
C3_SequentialOrder ==
  \A w \in WsIds : ~overlap[w] => PageList(w) = linkLog[w]

C3_Witness ==
  \E w \in WsIds :
    /\ Quiescent(w) /\ ~overlap[w]
    /\ Len(linkLog[w]) = 2
    /\ linkLog[w][1] # linkLog[w][2]
    /\ PageList(w) = linkLog[w]

\* C8 (as claimed): page_id_list only grows: every later value has the earlier
\* value as a prefix, also under interleaved addPageToWorkspace calls.
C8_AppendOnly ==
  [][ \A w \in WsIds : IsPrefix(PageList(w), PageList(w)') ]_vars

\* C4 (as claimed): getUserWorkspacesWithPages for a user with zero workspaces
\* (an empty workspace_id_list, or no user_info row at all) returns an empty
\* sequence with error = null, unless the store request itself failed.
C4_ZeroWorkspacesEmptyResult ==
  [][ ( /\ rd.op = GUWP /\ rd.pc = "guwp_user" /\ rd'.pc # "guwp_user"
        /\ (~user_info[rd.user].exists \/ user_info[rd.user].workspace_id_list = <<>>)
        /\ rd'.error # StoreError )
      => (rd'.pc = "done" /\ rd'.hasData /\ rd'.entries = <<>> /\ rd'.error = NoError) ]_vars

\* what a page lookup that succeeded must report for the page ids it was made for
CorrectlyAggregated(e, pageIds) ==
  LET N == Cardinality(Referenced(pageIds))
      done == Cardinality(ReferencedComplete(pageIds))
  IN /\ e.totalCount = N
     /\ e.completedCount = done
     /\ Len(e.pages) = N
     /\ e.status = (IF done = N /\ N > 0 THEN "completed" ELSE "in progress")

\* C5 (as claimed): a failed page lookup degrades its workspace to
\* completedCount = 0 and totalCount = 0, status 'in progress', no pages.
C5_DegradedZeroCounts ==
  \A i \in 1..Len(rd.entries) :
    rd.entries[i].state = "degraded"
    => /\ rd.entries[i].completedCount = 0
       /\ rd.entries[i].totalCount = 0
       /\ rd.entries[i].status = "in progress"
       /\ rd.entries[i].pages = <<>>

\* C5 (amended): in getUserWorkspacesWithPages a failed page lookup changes only
\* the entry of its own workspace, to completedCount = 0, totalCount = length of
\* that workspace's page_id_list, status 'in progress' and no pages; a lookup
\* that succeeds gives the correctly aggregated counts; the entries of the
\* other workspaces are left as they are and the call returns error = null.
C5_DegradeOnlyFailedWorkspace ==
  [][ (rd.op = GUWP /\ rd.pc = "guwp_pages" /\ rd' # rd)
      => /\ rd'.pc \in {"guwp_pages", "done"}
         /\ rd'.error = NoError
         /\ rd'.pc = "done" => rd'.hasData /\ Pending(rd'.entries) = {}
         /\ Len(rd'.entries) = Len(rd.entries)
         /\ \E i \in Pending(rd.entries) :
              LET e == rd'.entries[i]
                  pageIds == rd.entries[i].page_id_list
              IN /\ \A j \in 1..Len(rd.entries) : j # i => rd'.entries[j] = rd.entries[j]
                 /\ e.workspace_id = rd.entries[i].workspace_id
                 /\ e.page_id_list = pageIds
                 /\ e.state \in {"degraded", "aggregated"}
                 /\ e.state = "degraded"
                      => /\ e.completedCount = 0
                         /\ e.totalCount = Len(pageIds)
                         /\ e.status = "in progress"
                         /\ e.pages = <<>>
                 /\ e.state = "aggregated" => CorrectlyAggregated(e, pageIds) ]_vars

C5_Witness ==
  /\ rd.op = GUWP /\ rd.pc = "done" /\ rd.hasData /\ rd.error = NoError
  /\ Len(rd.entries) = 2
  /\ \E i, j \in 1..2 :
       /\ rd.entries[i].state = "degraded"
       /\ rd.entries[i].totalCount >= 1
       /\ rd.entries[j].state = "aggregated"
       /\ rd.entries[j].completedCount >= 1

\* C6: a workspace with an empty page_id_list aggregates to totalCount = 0,
\* completedCount = 0, status 'in progress' in both aggregation calls, and no
\* page lookup is made for it.
C6_EmptyListZeroCounts ==
  /\ \A i \in 1..Len(rd.entries) :
       rd.entries[i].page_id_list = <<>>
       => /\ rd.entries[i].state = "empty"
          /\ rd.entries[i].totalCount = 0
          /\ rd.entries[i].completedCount = 0
          /\ rd.entries[i].status = "in progress"
          /\ rd.entries[i].pages = <<>>
  /\ rd.pc = "gwp_pages" => rd.ids # <<>>

C6_Witness ==
  /\ rd.op = GUWP /\ rd.pc = "done" /\ rd.hasData
  /\ Len(rd.entries) = 2
  /\ \E i, j \in 1..2 :
       /\ rd.entries[i].page_id_list = <<>>
       /\ rd.entries[j].page_id_list # <<>>
       /\ rd.entries[j].state = "aggregated"

\* what getWorkspaceWithPages(w) returns when both of its reads see the current store
ReadNow(w) ==
  IF Len(PageList(w)) = 0 THEN emptyEntry(w, PageList(w))
  ELSE aggregatedEntry(w, PageList(w), selectPagesIn(PageList(w)))

\* the k >= 1 ids of the list are k different pages that were all created
LinkedCreated(w) ==
  /\ workspaces[w].exists
  /\ Len(PageList(w)) >= 1
  /\ \A i \in 1..Len(PageList(w)) : pages[PageList(w)[i]].exists
  /\ Cardinality(Range(PageList(w))) = Len(PageList(w))

\* C7: once k >= 1 created pages are linked, a read reports totalCount = k and
\* 'in progress' while a linked page is not complete; marking a linked page
\* complete raises completedCount by exactly one; the status is 'completed'
\* exactly when the last remaining linked page has been marked complete.
C7_EndToEnd ==
  [][ \A w \in WsIds :
        LinkedCreated(w)
        => /\ ReadNow(w).totalCount = Len(PageList(w))
           /\ (\E p \in Range(PageList(w)) : ~pages[p].is_complete)
                => ReadNow(w).status = "in progress"
           /\ (\A p \in Range(PageList(w)) : pages[p].is_complete)
                => ReadNow(w).status = "completed"
           /\ \A p \in Range(PageList(w)) :
                (~pages[p].is_complete /\ pages'[p].is_complete /\ PageList(w)' = PageList(w))
                => /\ ReadNow(w)'.completedCount = ReadNow(w).completedCount + 1
                   /\ ReadNow(w)'.totalCount = ReadNow(w).totalCount
                   /\ ReadNow(w)'.status = "completed"
                        <=> (\A q \in Range(PageList(w)) : q # p => pages[q].is_complete) ]_vars

C7_Witness ==
  \E w \in WsIds :
    /\ LinkedCreated(w)
    /\ Len(PageList(w)) = 2
    /\ \A p \in Range(PageList(w)) : pages[p].is_complete
    /\ rd.op = GWP /\ rd.pc = "done" /\ rd.ws = w /\ rd.hasData
    /\ rd.entries[1].status = "completed"
    /\ rd.entries[1].totalCount = 2

\* C9 (as claimed): the user's workspace_id_list contains every workspace id
\* that a call which returned no error has linked for that user.
C9_ListComplete ==
  \A u \in Users : linked[u] \subseteq Range(user_info[u].workspace_id_list)

\* C10: addWorkspaceToUser without an authenticated session returns
\* { data: null, error } and neither reads nor writes user_info.
C10_NoSessionNoAccess ==
  [][ \A c \in Callers :
        (pc[c] = "awu_session" /\ ~session /\ pc'[c] # "awu_session")
        => /\ pc'[c] = "done"
           /\ ret'[c] = [data |-> NoId, error |-> AuthError]
           /\ loc'[c] = loc[c]
           /\ user_info' = user_info ]_vars

C10_Witness ==
  \E c \in Callers :
    /\ pc[c] = "done"
    /\ ret[c] = [data |-> NoId, error |-> AuthError]
    /\ ~loc[c].viaUpload
    /\ ~user_info[arg[c].user].exists

\* C11: with an authenticated session, the write of addWorkspaceToUser that
\* succeeds creates the record with workspace_id_list = [workspaceId] when the
\* call found no user_info record, and otherwise writes back the list the call
\* has read with workspaceId appended at the end, the entries read before it
\* unchanged and in their order.
C11_LinkAppends ==
  [][ \A c \in Callers :
        (pc[c] = "awu_write" /\ pc'[c] = "done" /\ ret'[c].error = NoError)
        => LET u == arg[c].user
               w == LinkedWorkspace(c)
               written == user_info'[u].workspace_id_list
           IN /\ user_info'[u].exists
              /\ ret'[c].data = w
              /\ ~loc[c].exists => (~user_info[u].exists /\ written = <<w>>)
              /\ loc[c].exists
                   => /\ Len(written) = Len(loc[c].list) + 1
                      /\ IsPrefix(loc[c].list, written)
                      /\ written[Len(written)] = w ]_vars

C11_Witness ==
  \E c \in Callers :
    /\ pc[c] = "done" /\ ret[c].error = NoError /\ ~loc[c].viaUpload
    /\ session
    /\ loc[c].exists /\ Len(loc[c].list) = 1
    /\ loc[c].list[1] # arg[c].ws
    /\ user_info[arg[c].user].workspace_id_list = <<loc[c].list[1], arg[c].ws>>

\* number of positions of a list that hold the id
Occurrences(list, id) == Cardinality({i \in 1..Len(list) : list[i] = id})

\* C12: neither linking operation deduplicates: a call made after the earlier
\* calls have returned, and which succeeds, makes the list one longer and the
\* id occur once more, also when the list already holds the id; two such calls
\* with the same id leave it twice (the witness).
C12_NoDeduplication ==
  [][ /\ (pc[Writer] = "ap_write" /\ pc'[Writer] = "done" /\ ret'[Writer].error = NoError)
         => LET w == arg[Writer].ws
                pageId == arg[Writer].page
            IN /\ Len(PageList(w)') = Len(PageList(w)) + 1
               /\ Occurrences(PageList(w)', pageId) = Occurrences(PageList(w), pageId) + 1
      /\ (pc[Writer] = "awu_write" /\ pc'[Writer] = "done" /\ ret'[Writer].error = NoError)
         => LET u == arg[Writer].user
                workspaceId == arg[Writer].ws
                before == user_info[u].workspace_id_list
                after == user_info'[u].workspace_id_list
            IN /\ Len(after) = Len(before) + 1
               /\ Occurrences(after, workspaceId) = Occurrences(before, workspaceId) + 1 ]_vars

C12_Witness ==
  \E w \in WsIds, p \in PageIds, u \in Users :
    /\ pc[Writer] = "done" /\ ret[Writer].error = NoError
    /\ linkLog[w] = <<p, p>>
    /\ PageList(w) = <<p, p>>
    /\ user_info[u].workspace_id_list = <<w, w>>

\* C13: createWorkspaceWithUpload runs upload, workspace creation and user
\* linking in that order and stops at the first failure: a failed upload ends
\* the call with an error, no workspace record and no user_info write; a failed
\* creation ends it with an error and no user_info write; the call returns
\* data with error = null only from a successful link, after its upload and
\* its workspace creation have succeeded.
C13_OrderedFailFast ==
  [][ \A c \in Callers :
        /\ (pc[c] = "cwu_upload" /\ pc'[c] # "cwu_upload")
           => /\ workspaces' = workspaces /\ user_info' = user_info
              /\ IF uploads' = uploads + 1
                 THEN pc'[c] = "cwu_create"
                 ELSE /\ uploads' = uploads
                      /\ pc'[c] = "done" /\ ret'[c].data = NoId /\ ret'[c].error # NoError
        /\ (pc[c] = "cwu_create" /\ pc'[c] # "cwu_create")
           => /\ uploads' = uploads /\ user_info' = user_info
              /\ IF workspaces' # workspaces
                 THEN /\ pc'[c] = "awu_session"
                      /\ loc'[c].ws # NoId
                      /\ ~workspaces[loc'[c].ws].exists /\ workspaces'[loc'[c].ws].exists
                 ELSE pc'[c] = "done" /\ ret'[c].data = NoId /\ ret'[c].error # NoError
        /\ (loc[c].viaUpload /\ pc[c] \in {"awu_session", "awu_check"} /\ pc'[c] # pc[c])
           => user_info' = user_info
        /\ (loc[c].viaUpload /\ pc[c] # "done" /\ pc'[c] = "done" /\ ret'[c].error = NoError)
           => /\ pc[c] = "awu_write"
              /\ uploads >= 1
              /\ loc[c].ws # NoId /\ workspaces[loc[c].ws].exists
              /\ ret'[c].data = loc[c].ws
              /\ loc[c].ws \in Range(user_info'[arg[c].user].workspace_id_list) ]_vars

C13_Witness ==
  \E c, d \in Callers :
    /\ pc[c] = "done" /\ loc[c].viaUpload /\ ret[c].error = NoError
    /\ ret[c].data = loc[c].ws /\ workspaces[loc[c].ws].exists
    /\ user_info[arg[c].user].workspace_id_list = <<loc[c].ws>>
    /\ pc[d] = "done" /\ loc[d].viaUpload /\ ret[d].error = UploadFailed
    /\ uploads = 1
    /\ Cardinality(Existing(workspaces, WsIds)) = 1

\* C14: createWorkspaceWithUpload does not compensate: no step removes an
\* object from the uploads bucket, and when the creation or the linking fails
\* after the upload has succeeded the call returns an error while the object
\* it uploaded is still in the bucket.
C14_NoCompensation ==
  [][ /\ uploads' >= uploads
      /\ \A c \in Callers :
           ( /\ loc[c].viaUpload
             /\ pc[c] \in {"cwu_create", "awu_session", "awu_check", "awu_write"}
             /\ pc'[c] = "done" /\ ret'[c].error # NoError )
           => (uploads >= 1 /\ uploads' = uploads /\ ret'[c].data = NoId) ]_vars

C14_Witness ==
  \E c \in Callers :
    /\ pc[c] = "done" /\ loc[c].viaUpload
    /\ ret[c] = [data |-> NoId, error |-> StoreError]
    /\ loc[c].ws = NoId
    /\ uploads = 1
    /\ Existing(workspaces, WsIds) = {}

\* C15: a failure in any step of createWorkspaceWithUpload is reported as one
\* result { data: null, error } that carries none of what the call had
\* produced, and the failing step leaves the store as the earlier steps of the
\* call have written it: the workspace row the call inserted is still there.
C15_AggregateError ==
  [][ \A c \in Callers :
        (loc[c].viaUpload /\ pc[c] # "done" /\ pc'[c] = "done" /\ ret'[c].error # NoError)
        => /\ ret'[c].data = NoId
           /\ storeVars' = storeVars
           /\ loc'[c] = loc[c]
           /\ loc[c].ws # NoId => workspaces'[loc[c].ws].exists ]_vars

C15_Witness ==
  \E c \in Callers :
    /\ pc[c] = "done" /\ loc[c].viaUpload
    /\ ret[c] = [data |-> NoId, error |-> AuthError]
    /\ loc[c].ws # NoId /\ workspaces[loc[c].ws].exists
    /\ uploads = 1
    /\ ~user_info[arg[c].user].exists

\* workspaces whose page_id_list holds the page
Owners(p) == {w \in WsIds : p \in Range(PageList(w))}

\* C16: page ownership is exclusive: in every state the generate-review
\* workflow reaches, run any number of times and by callers side by side, no
\* page id is in the page_id_list of more than one workspace.
C16_ExclusiveOwnership ==
  \A p \in PageIds : Cardinality(Owners(p)) <= 1

C16_Witness ==
  \E v, w \in WsIds :
    /\ v # w
    /\ Len(PageList(v)) = 1 /\ Len(PageList(w)) = 1
    /\ PageList(v) # PageList(w)
    /\ \A c \in Callers : pc[c] = "done" /\ loc[c].flow = "end" /\ ret[c].error = NoError

\* the entries of s are entries of t, in the order they have in t
IsSubsequence(s, t) ==
  \E f \in [1..Len(s) -> 1..Len(t)] :
    /\ \A k \in 1..Len(s) : t[f[k]] = s[k]
    /\ \A j, k \in 1..Len(s) : j < k => f[j] < f[k]

\* the workflow of caller c has its workspace and is in, or has finished, the page loop
InPageLoop(c) == loc[c].flow \in {"pages", "end"} /\ arg[c].ws # NoId

\* C19: the generate-review workflow creates and links its pages one at a time
\* in question order: a page is created only when the link of every page
\* created before it has returned, and page_id_list is at every moment the
\* successfully linked pages in question order; when the workflow ends the
\* list has as many entries as there are questions less one for every page
\* creation or link that failed, so never more than the number of questions.
C19_OneAtATimeInOrder ==
  /\ [](\A c \in Callers :
          InPageLoop(c)
          => LET w == arg[c].ws IN
             /\ PageList(w) = linkLog[w]
             /\ IsSubsequence(PageList(w), loc[c].pageIds)
             /\ Len(loc[c].pageIds) <= loc[c].i /\ loc[c].i <= loc[c].questions
             /\ loc[c].flow = "end"
                  => /\ Len(PageList(w)) = loc[c].questions - loc[c].pageErrors
                     /\ Len(PageList(w)) <= loc[c].questions)
  /\ [][ \A c \in Callers, p \in PageIds :
           (pc[c] = "gr_page" /\ pc'[c] # "gr_page" /\ ~pages[p].exists /\ pages'[p].exists)
           => /\ InFlightOn(arg[c].ws) = {}
              /\ Len(PageList(arg[c].ws)) = loc[c].i - loc[c].pageErrors
              /\ loc'[c].pageIds = Append(loc[c].pageIds, p)
              /\ pc'[c] = "ap_read" /\ arg'[c].page = p ]_vars

C19_Witness ==
  \E c \in Callers :
    /\ pc[c] = "done" /\ loc[c].flow = "end" /\ ret[c].error = NoError
    /\ loc[c].questions = 2 /\ loc[c].pageErrors = 0
    /\ Len(loc[c].pageIds) = 2
    /\ PageList(arg[c].ws) = loc[c].pageIds
    /\ workspaces[arg[c].ws].questions_set

\* the fields both aggregation calls compute for a workspace
Aggregate(e) ==
  [pages |-> e.pages, completedCount |-> e.completedCount,
   totalCount |-> e.totalCount, status |-> e.status]

\* entries of a getUserWorkspacesWithPages call that the step has just computed
Computed(before, after) ==
  {i \in 1..Len(after) :
     /\ after[i].state \in {"empty", "aggregated"}
     /\ (i > Len(before) \/ before[i].state = "pending")}

\* C20: when no lookup fails, the entry getUserWorkspacesWithPages computes
\* for a workspace has the pages, completedCount, totalCount and status that
\* getWorkspaceWithPages returns for that workspace on the same store state
\* (the page_id_list the entry was made from is the stored one), whatever
\* other workspaces the user has and in whatever order the page lookups
\* complete.
C20_SameAggregate ==
  [][ (rd.op = GUWP /\ rd' # rd)
      => \A i \in Computed(rd.entries, rd'.entries) :
           LET e == rd'.entries[i] IN
           e.page_id_list = PageList(e.workspace_id)
           => Aggregate(e) = Aggregate(ReadNow(e.workspace_id)) ]_vars

C20_Witness ==
  /\ rd.op = GUWP /\ rd.pc = "done" /\ rd.hasData
  /\ Len(rd.entries) = 2
  /\ \A i \in 1..2 :
       /\ rd.entries[i].state = "aggregated"
       /\ Aggregate(rd.entries[i]) = Aggregate(ReadNow(rd.entries[i].workspace_id))
  /\ rd.entries[1].status = "completed"
  /\ rd.entries[2].status = "in progress"

\* the entry getUserWorkspacesWithPages computes for workspace w of the
\* user's list when its reads see the current store and none fails
ReadUserEntryNow(w) ==
  IF Len(PageList(w)) = 0
  THEN getUserWorkspacesWithPages_emptyEntry(w, PageList(w))
  ELSE getUserWorkspacesWithPages_entry(w, PageList(w), selectPagesIn(PageList(w)))

Counts(e) == <<e.completedCount, e.totalCount, e.status>>

\* the step changes the stored num_completed of workspace w and nothing else in the store
OnlyNumCompletedChanges(w) ==
  /\ workspaces[w].exists
  /\ workspaces'[w].num_completed # workspaces[w].num_completed
  /\ workspaces' = [workspaces EXCEPT ![w].num_completed = workspaces'[w].num_completed]
  /\ pages' = pages /\ user_info' = user_info

\* C18: the aggregation results do not depend on the stored num_completed: on
\* two store states that differ only in the num_completed of a workspace,
\* getWorkspaceWithPages returns the same completedCount, totalCount and
\* status for it, and getUserWorkspacesWithPages returns the same workspaces
\* with the same completedCount, totalCount and status for each.
C18_StoredCountIgnored ==
  [][ \A w \in WsIds :
        OnlyNumCompletedChanges(w)
        => /\ Counts(ReadNow(w))' = Counts(ReadNow(w))
           /\ \A u \in Users :
                selectWorkspacesIn(user_info[u].workspace_id_list)'
                  = selectWorkspacesIn(user_info[u].workspace_id_list)
           /\ \A v \in WsIds :
                workspaces[v].exists => Counts(ReadUserEntryNow(v))' = Counts(ReadUserEntryNow(v)) ]_vars

C18_Witness ==
  \E w \in WsIds, u \in Users :
    /\ workspaces[w].exists
    /\ workspaces[w].num_completed = 2
    /\ ReadNow(w).totalCount = 1
    /\ ReadNow(w).completedCount = 0
    /\ selectWorkspacesIn(user_info[u].workspace_id_list) = <<w>>
    /\ Counts(ReadUserEntryNow(w)) = <<0, 1, "in progress">>

\* C17: is_complete is false when a page is created and never goes back to
\* false: no step (snapshot save, answer submission, navigation, or any other
\* operation) changes it from true to false; the grading path writes
\* is_complete = true only for the question it was started on and only when
\* the currentQuestion it holds is not complete.
C17_CompleteMonotonic ==
  [][ /\ \A p \in PageIds :
           /\ (~pages[p].exists /\ pages'[p].exists) => ~pages'[p].is_complete
           /\ (pages[p].exists /\ pages[p].is_complete)
                => (pages'[p].exists /\ pages'[p].is_complete)
           /\ (~pages[p].is_complete /\ pages'[p].is_complete /\ view' # view)
                => /\ view.submit.pc = "mark"
                   /\ p = view.submit.currentQuestion.page_id
      /\ view'.submit.pc = "mark" => ~view'.submit.currentQuestion.is_complete ]_vars

C17_Witness ==
  /\ Shown
  /\ currentQuestion.is_complete
  /\ pages[currentQuestion.page_id].is_complete
  /\ view.submit.pc = "grade"
  /\ view.submit.currentQuestion = currentQuestion
  /\ view.saving = {}

\* ---------------------------------------------------------------- C21
\* C21: getWorkspaceWithPages has no degradation path: when the workspace does
\* not exist, the workspace lookup fails or the page lookup fails, the call
\* ends with an error and data = null; a result that carries data has
\* error = null and is the empty-list entry or the entry aggregated from the
\* pages the lookup found, never an entry with counts zeroed by a failure.
C21_NoDegradation ==
  /\ [](rd.op = GWP /\ rd.pc = "done"
          => /\ rd.hasData <=> rd.error = NoError
             /\ rd.hasData => Len(rd.entries) = 1
             /\ ~rd.hasData => rd.entries = <<>>
             /\ \A i \in 1..Len(rd.entries) :
                  rd.entries[i].state \in {"empty", "aggregated"})
  /\ [][ (rd.op = GWP /\ rd.pc = "gwp_workspace" /\ rd'.pc # "gwp_workspace")
          => /\ ~workspaces[rd.ws].exists
                  => rd'.pc = "done" /\ ~rd'.hasData /\ rd'.error # NoError
             /\ (rd'.pc = "done" /\ rd'.hasData)
                  => /\ PageList(rd.ws) = <<>>
                     /\ rd'.entries[1] = emptyEntry(rd.ws, <<>>) ]_vars
  /\ [][ (rd.op = GWP /\ rd.pc = "gwp_pages" /\ rd'.pc # "gwp_pages")
          => /\ rd'.pc = "done"
             /\ rd'.hasData
                  => /\ rd'.entries[1].state = "aggregated"
                     /\ CorrectlyAggregated(rd'.entries[1], rd.ids) ]_vars

\* the call has ended with an error and no data for a workspace that exists
\* and has pages: a lookup failed
C21_Witness ==
  /\ rd.op = GWP /\ rd.pc = "done"
  /\ ~rd.hasData /\ rd.error = StoreError /\ rd.entries = <<>>
  /\ workspaces[rd.ws].exists
  /\ Len(PageList(rd.ws)) >= 1
  /\ \E p \in Range(PageList(rd.ws)) : pages[p].exists /\ pages[p].is_complete

\* ---------------------------------------------------------------- C24
\* C24: every result of getWorkspaceWithPages and every entry of
\* getUserWorkspacesWithPages, the empty-list and the degraded entries
\* included, has 0 <= completedCount <= totalCount <= length of its
\* page_id_list, and status = 'completed' implies completedCount = totalCount > 0.
C24_CountBounds ==
  \A i \in 1..Len(rd.entries) :
    LET e == rd.entries[i] IN
    /\ 0 <= e.completedCount
    /\ e.completedCount <= e.totalCount
    /\ e.totalCount <= Len(e.page_id_list)
    /\ e.status \in {"completed", "in progress"}
    /\ e.status = "completed" => e.completedCount = e.totalCount /\ e.totalCount > 0

\* a returned list with a degraded entry and an entry that found fewer pages
\* than its list names, one of them complete
C24_Witness ==
  /\ rd.op = GUWP /\ rd.pc = "done" /\ rd.hasData
  /\ \E i, j \in 1..Len(rd.entries) :
       /\ rd.entries[i].state = "degraded"
       /\ rd.entries[i].totalCount >= 1
       /\ rd.entries[j].state = "aggregated"
       /\ rd.entries[j].completedCount >= 1
       /\ rd.entries[j].totalCount < Len(rd.entries[j].page_id_list)

\* ---------------------------------------------------------------- C25
\* C25: addPageToWorkspace leaves the store unchanged on error: when the
\* workspace lookup fails or the workspace does not exist the call ends there
\* with { data: null, error }, the lookup step itself writes nothing, and a
\* call that ends with an error has changed no record.
C25_ErrorLeavesStore ==
  [][ \A c \in Callers :
        /\ (pc[c] = "ap_read" /\ pc'[c] # "ap_read")
             => /\ storeVars' = storeVars
                /\ ~workspaces[arg[c].ws].exists => pc'[c] = "done"
                /\ pc'[c] = "done"
                     => ret'[c].data = NoId /\ ret'[c].error \in {StoreError, NotFound}
                /\ pc'[c] # "done"
                     => /\ pc'[c] = "ap_write"
                        /\ workspaces[arg[c].ws].exists
                        /\ loc'[c].list = PageList(arg[c].ws)
        /\ (pc[c] = "ap_write" /\ pc'[c] # "ap_write")
             => /\ pc'[c] = "done"
                /\ ret'[c].error # NoError
                     => storeVars' = storeVars /\ ret'[c].data = NoId
                /\ storeVars' # storeVars => ret'[c].error = NoError ]_vars

\* one call has ended at the lookup of a workspace that does not exist, while
\* another workspace already holds a page
C25_Witness ==
  \E c \in Callers :
    /\ pc[c] = "done"
    /\ arg[c].page # NoId
    /\ ret[c] = [data |-> NoId, error |-> NotFound]
    /\ ~workspaces[arg[c].ws].exists
    /\ \E w \in WsIds : workspaces[w].exists /\ Len(PageList(w)) >= 1

\* ---------------------------------------------------------------- C26
\* C26: the generate-review workflow writes nothing to the store before the
\* question generation has succeeded: its session and generation steps change
\* no record and upload no file; when there is no user session or the
\* generation fails the workflow ends with that error, and its only further
\* step is the finally block, which changes no record and sets the dialog's
\* loading flag back to false.
C26_NothingBeforeGeneration ==
  /\ [](\A c \in Callers :
          /\ pc[c] \in {"gr_session", "gr_generate"} => isLoading(c)
          /\ (pc[c] = "done" /\ loc[c].flow = "end")
               => isLoading(c) /\ ENABLED handleGenerateReview_finally(c))
  /\ [][ \A c \in Callers :
          /\ (pc[c] \in {"gr_session", "gr_generate"} /\ pc'[c] # pc[c])
               => /\ storeVars' = storeVars
                  /\ pc[c] = "gr_session" /\ ~session
                       => /\ pc'[c] = "done" /\ loc'[c].flow = "end"
                          /\ ret'[c] = [data |-> NoId, error |-> NoSession]
                  /\ pc'[c] = "done"
                       => /\ loc'[c].flow = "end"
                          /\ ret'[c].data = NoId
                          /\ ret'[c].error \in {NoSession, GenerationFailed}
          /\ (pc[c] = "done" /\ loc[c].flow = "end" /\ pc'[c] # pc[c])
               => /\ storeVars' = storeVars
                  /\ pc'[c] = "idle"
                  /\ ~isLoading(c)' ]_vars

\* one workflow has ended at the failed generation while the other has
\* already created its workspace: the store holds exactly what the other made
C26_Witness ==
  \E c, d \in Callers :
    /\ c # d
    /\ pc[c] = "done" /\ loc[c].flow = "end"
    /\ ret[c] = [data |-> NoId, error |-> GenerationFailed]
    /\ isLoading(c)
    /\ loc[d].flow = "pages"
    /\ uploads = 1
    /\ Cardinality(Existing(workspaces, WsIds)) = 1

\* ---------------------------------------------------------------- C27
\* a workspace that exists, whose link was never written and for which no
\* linking call is in flight: its createWorkspaceWithUpload failed at the link
Linking(w) ==
  {c \in Callers : pc[c] \in {"awu_session", "awu_check", "awu_write"} /\ LinkedWorkspace(c) = w}
Orphaned(w) ==
  /\ workspaces[w].exists
  /\ Linking(w) = {}
  /\ \A u \in Users : w \notin linked[u]

\* C27: when the user linking fails inside createWorkspaceWithUpload after the
\* workspace record was created, the call ends with an error, the record stays
\* in the store and no user's workspace_id_list holds its id; this stays so,
\* and no entry of getUserWorkspacesWithPages is ever made for it.
C27_OrphanNeverListed ==
  /\ [](\A w \in WsIds :
          Orphaned(w)
          => /\ \A u \in Users : w \notin Range(user_info[u].workspace_id_list)
             /\ rd.op = GUWP
                  => \A i \in 1..Len(rd.entries) : rd.entries[i].workspace_id # w)
  /\ [][ \A c \in Callers :
          ( /\ loc[c].viaUpload
            /\ pc[c] \in {"awu_session", "awu_check", "awu_write"}
            /\ pc'[c] = "done" /\ ret'[c].error # NoError )
          => /\ ret'[c].data = NoId
             /\ workspaces'[loc[c].ws].exists
             /\ Orphaned(loc[c].ws)' ]_vars
  /\ [][ \A w \in WsIds : Orphaned(w) => Orphaned(w)' ]_vars

\* the list of the user was returned with one workspace while another
\* workspace, left behind by a failed link, is in the store
C27_Witness ==
  /\ rd.op = GUWP /\ rd.pc = "done" /\ rd.hasData /\ Len(rd.entries) = 1
  /\ \E w \in WsIds :
       /\ Orphaned(w)
       /\ w < rd.entries[1].workspace_id
       /\ pc[Writer] = "idle"

\* ---------------------------------------------------------------- C28
\* the completion state the page holds locally follows the aggregation rule
LocallyAggregated(workspaceData) ==
  /\ workspaceData.completedCount = Len(SelectSeq(workspaceData.pages, IsComplete))
  /\ workspaceData.status = "completed"
       <=> /\ Len(workspaceData.pages) > 0
           /\ \A i \in 1..Len(workspaceData.pages) : workspaceData.pages[i].is_complete

\* C28: when the answer was graded correct and the store write of
\* is_complete = true succeeds, the local state of the page agrees with the
\* aggregation rule: the graded page is complete locally, the local
\* completedCount is the number of local pages that are complete and the local
\* status is 'completed' exactly when all local pages, at least one, are
\* complete; when the write fails the local completion state is unchanged.
C28_LocalAgreesWithRule ==
  /\ [](view.workspaceData.loaded => LocallyAggregated(view.workspaceData))
  /\ [][ (view.submit.pc = "mark" /\ view'.submit.pc # "mark")
          => LET page_id == view.submit.currentQuestion.page_id
                 marked == {i \in 1..Len(view'.workspaceData.pages) :
                              view'.workspaceData.pages[i].page_id = page_id} IN
             /\ view'.submit = NoSubmit
             /\ \/ /\ pages'[page_id].is_complete
                   /\ view.sessionId # NoId
                        => /\ marked # {}
                           /\ \A i \in marked : view'.workspaceData.pages[i].is_complete
                           /\ LocallyAggregated(view'.workspaceData)
                           /\ view'.workspaceData.completedCount
                                = view.workspaceData.completedCount + 1
                \/ /\ pages' = pages
                   /\ view'.workspaceData = view.workspaceData
             /\ pages' # pages => pages'[page_id].is_complete
             /\ view.sessionId = NoId => view'.workspaceData = view.workspaceData ]_vars

\* the write of is_complete = true is about to be made for a question the
\* user has already navigated away from, with the other question complete
C28_Witness ==
  /\ Shown
  /\ view.submit.pc = "mark"
  /\ view.currentQuestionIndex # view.submit.currentQuestionIndex
  /\ Len(view.workspaceData.pages) = MaxPages
  /\ view.workspaceData.completedCount = MaxPages - 1
  /\ ~pages[view.submit.currentQuestion.page_id].is_complete

\* ---------------------------------------------------------------- C29
\* C29: whenever a workspace with at least one page is displayed,
\* 0 <= currentQuestionIndex <= totalQuestions - 1, after any sequence of
\* next / previous navigation and workspace loads: the current question is
\* always defined.
C29_IndexInRange ==
  Shown => /\ 0 <= view.currentQuestionIndex
           /\ view.currentQuestionIndex <= Len(view.workspaceData.pages) - 1

PageIdsOf(rows) == [i \in DOMAIN rows |-> rows[i].page_id]

\* ids are handed out in creation order, so created_at ascending is page_id ascending
CreatedAscending(ids) == \A j, k \in DOMAIN ids : j < k => ids[j] < ids[k]

\* C22: the pages getWorkspaceWithPages returns are the existing pages of the
\* list it read, each once, sorted by creation time ascending whatever the order
\* of the ids in page_id_list; for the workspace of a generate-review workflow,
\* whose pages are created and linked one after the other, that order is the
\* order of page_id_list and the order of the questions.
C22_PagesByCreation ==
  /\ [][ (rd.pc = "gwp_pages" /\ rd'.pc = "done" /\ rd'.hasData)
         => LET e == rd'.entries[1] IN
            /\ CreatedAscending(PageIdsOf(e.pages))
            /\ Range(PageIdsOf(e.pages)) = Referenced(rd.ids)
            /\ e.page_id_list = rd.ids ]_vars
  /\ [][ (rd.pc = "gwp_pages" /\ rd'.pc = "done" /\ rd'.hasData
          /\ InPageLoop(Writer) /\ arg[Writer].ws = rd.ws)
         => LET e == rd'.entries[1] IN
            /\ PageIdsOf(e.pages) = e.page_id_list
            /\ IsSubsequence(PageIdsOf(e.pages), loc[Writer].pageIds) ]_vars
  /\ [](\A w \in WsIds :
          (InPageLoop(Writer) /\ arg[Writer].ws = w)
          => PageIdsOf(ReadNow(w).pages) = PageList(w))

C22_Witness ==
  /\ rd.pc = "done" /\ rd.op = "getWorkspaceWithPages" /\ rd.hasData
  /\ rd.entries[1].page_id_list = <<2, 1>>
  /\ PageIdsOf(rd.entries[1].pages) = <<1, 2>>
  /\ \E w \in WsIds :
       /\ InPageLoop(Writer) /\ arg[Writer].ws = w /\ w # rd.ws
       /\ loc[Writer].flow = "end"
       /\ PageList(w) = <<1, 2>> /\ loc[Writer].pageIds = <<1, 2>>
       /\ PageIdsOf(ReadNow(w).pages) = <<1, 2>>

\* entry j of the history is a startVapi call whose context is still pending
\* before entry i: no later startVapi, stopVapi or send comes between them
PendingFrom(L, j, i) ==
  /\ j < i
  /\ L[j].event = "startVapi"
  /\ \A k \in (j + 1)..(i - 1) : L[k].event \notin {"startVapi", "stopVapi", "send"}

\* C30: a context message is sent only in response to a call-start event while a
\* context is pending, and one is sent then; the pending context is cleared
\* right after it is sent, so no startVapi call has two messages; a stopVapi
\* before call-start discards the pending context and nothing is sent for it;
\* of several startVapi calls before call-start only the latest context is sent.
C30_ContextDelivery ==
  LET L == vapi.log IN
  /\ \A i \in DOMAIN L :
       L[i].event = "send"
       => /\ i > 1 /\ L[i - 1].event = "call-start"
          /\ \E j \in DOMAIN L :
               /\ PendingFrom(L, j, i)
               /\ L[i].text = L[j].text
               /\ L[i].work = IF L[j].work \in {Undefined, ""} THEN "No work shown yet"
                              ELSE L[j].work
  /\ \A i \in DOMAIN L :
       (L[i].event = "call-start" /\ \E j \in DOMAIN L : PendingFrom(L, j, i))
       => i < Len(L) /\ L[i + 1].event = "send"
  /\ vapi.pendingContext # Null
       <=> \E j \in DOMAIN L : PendingFrom(L, j, Len(L) + 1)
  /\ \A j \in DOMAIN L :
       PendingFrom(L, j, Len(L) + 1)
       => vapi.pendingContext = [text |-> L[j].text, canvasDescription |-> L[j].work]
  /\ Cardinality({i \in DOMAIN L : L[i].event = "send"})
       <= Cardinality({j \in DOMAIN L : L[j].event = "startVapi"})

C30_Witness ==
  LET L == vapi.log IN
  /\ Len(L) = 6
  /\ [i \in DOMAIN L |-> L[i].event]
       = <<"startVapi", "stopVapi", "call-start", "startVapi", "call-start", "send">>
  /\ L[1].text = "q1" /\ L[4].text = "q2" /\ L[6].text = "q2"
  /\ L[4].work = "" /\ L[6].work = "No work shown yet"
  /\ vapi.pendingContext = Null

====
